---------------------------- MODULE Spec2Model ----------------------------
(***************************************************************************)
(* A model of Secure-Wipe-Desktop: the command-line entry point            *)
(* (securewipe.py __main__), the free-space overwrite engine               *)
(* (wipe_free_space), the full-disk pipeline (format_disk) and the GUI     *)
(* worker that wipes free space (SecureWipeGUI.wipe_thread /               *)
(* perform_free_space_wipe).                                               *)
(*                                                                         *)
(* One run of the program is one behaviour.  `entry` says which entry      *)
(* point the run uses; `pc` is the position of the thread that executes    *)
(* the operation (the main thread for the CLI, the worker thread for the   *)
(* GUI).  External effects (sub-processes, the filesystem, the user's      *)
(* answers, SIGINT) are nondeterministic choices.                          *)
(***************************************************************************)
EXTENDS Integers, Sequences, FiniteSets, TLC

VARIABLES
    entry,              \* "cli_freespace" | "cli_format" | "gui_wipe" | "gui_format"
    args,               \* the parsed command line / the GUI settings
    system,             \* platform.system()
    pc,                 \* position of the executing thread
    exit_status,        \* <<>> while running, <<status>> once the process ended
    passes,             \* parameter `passes` of the running core function
    block_size,         \* `block_size` of the running core function
    stages,             \* pipeline stages executed so far, in order
    soft_failed,        \* some best-effort stage reported failure
    confirmed,          \* the caller typed the exact confirmation phrase
    has_hidden,         \* format_disk: local has_hidden
    mount_point,        \* format_disk: local mount_point ("None" or "path")
    free_space,         \* measured free space in bytes
    fname,              \* current temp-file name
    temp_files,         \* the cleanup registry
    files,              \* temp files that exist on disk
    f,                  \* the file object: "unbound" | "open" | "closed"
    atexit_registered,  \* cleanup_temp_files is registered with atexit
    handler,            \* installed SIGINT handler
    p,                  \* pass index
    mode,               \* pattern of the current pass
    written,            \* bytes counted as written in the current pass
    chunk,              \* the last block handed to f.write
    printed,            \* messages of interest printed so far
    interrupted,        \* a SIGINT was delivered to the process
    errno,              \* e.errno of the OSError being handled, else "none"
    io_error,           \* a write failed with an error other than storage-full
    events,             \* GUI: terminal/notice events put on progress_queue
    operation_running,  \* GUI: SecureWipeGUI.operation_running
    threads,            \* GUI: the worker threads started so far, in order
    certificate_btn,    \* GUI: state of the Generate Certificate button
    wiped,              \* the byte count of the last summary / progress report
    current_time,       \* the last reading of time.time(), in tenths of a second
    pass_start_time,    \* reading of time.time() at the start of the pass
    last_display_time,  \* reading at the last refresh of the time line
    emissions,          \* readings at which the time line was rewritten in this pass
    inputs,             \* utility functions: the arguments and environment of the call
    returned,           \* utility functions: the value returned by the call
    size                \* bytes in the temp file of the pass (os.path.getsize)

vars == <<entry, args, system, pc, exit_status, passes, block_size, stages,
          soft_failed, confirmed, has_hidden, mount_point, free_space, fname,
          temp_files, files, f, atexit_registered, handler, p, mode, written,
          chunk, printed, interrupted, errno, io_error, events,
          operation_running, threads, certificate_btn, wiped, current_time,
          pass_start_time,
          last_display_time, emissions, inputs, returned, size>>

\* The elapsed/remaining display of the write loops (1101-1108, 1141-1170;
\* 2021-2028, 2068-2096).
display == <<current_time, pass_start_time, last_display_time, emissions>>

\* The call of a utility function (drive enumeration, time estimate, size
\* formatting) outside a wipe or format operation.
util == <<inputs, returned>>

---------------------------------------------------------------------------
(* Bounds of the model *)

MaxPasses == 4
MaxBlocks == 1
MaxFreeBlocks == 1
SmallBlockSize == 7

(* Program constants *)

DefaultBlockSize == 1048576
DefaultPasses == 3
ExitInterrupted == 130
ExitFatal == 1
ExitOk == 0

Patterns == {"all", "zeroes", "ones", "random", "ticks", "haha"}

Systems == {"Linux", "Darwin", "Windows"}

BlockSizes == {SmallBlockSize, DefaultBlockSize}

\* Outcomes of a best-effort external step: the tool succeeds, reports
\* failure (non-zero return code, tool missing), or the call raises.
ToolOutcomes == {"ok", "failed", "raised"}

\* Outcomes of one f.write(chunk).
WriteOutcomes == {"ok", "ENOSPC", "EFBIG", "EIO"}

CONFIRMATION_TEXT == "I UNDERSTAND"

---------------------------------------------------------------------------
(* Byte blocks.  A block is kept as the motif it repeats and its length:   *)
(* byte i (0-based) of the block is motif[(i % Len(motif)) + 1].  The      *)
(* motif <<"urandom">> stands for bytes drawn from os.urandom.             *)

NoChunk == [motif |-> <<>>, len |-> 0]

Min(a, b) == IF a <= b THEN a ELSE b

\* (pattern_bytes * (block_size // len(pattern_bytes) + 1))[:block_size]
Tiled(pattern_bytes, n) ==
    [motif |-> pattern_bytes,
     len |-> Min(n, Len(pattern_bytes) * ((n \div Len(pattern_bytes)) + 1))]

\* b'\x00' * block_size, b'\xFF' * block_size
Filled(byte, n) == [motif |-> <<byte>>, len |-> n]

\* os.urandom(block_size)
Urandom(n) == [motif |-> <<"urandom">>, len |-> n]

TICKS == <<"3", "=", "=", "=", "D">>

HAHA == <<"h", "a", "h", "a", "-">>

---------------------------------------------------------------------------
(* Process-level helpers *)

IsRunning == exit_status = <<>>

ExitedWith(status) == exit_status = <<status>>

pattern == args.pattern

verify == args.verify

no_confirm == args.yes

\* cleanup_temp_files(): the files left on disk after it ran over `registry`.
\* open_name is the file the process still holds open (<<>> when none):
\* Windows refuses to delete an open file, the exception is caught and the
\* file stays; os.path.exists skips the names that are not on disk.
cleanup_temp_files(fs, registry, open_name) ==
    {x \in fs : ~(x \in registry /\ ~(system = "Windows" /\ <<x>> = open_name))}

\* The file held open by the write loop, as a sequence of length 0 or 1.
OpenName == IF f = "open" THEN <<fname>> ELSE <<>>

\* The thread that runs the core function: the main thread for the command
\* line, a worker thread (threading.Thread) for the GUI.
InMainThread == entry \in {"cli_freespace", "cli_format"}

\* sys.exit(status), or the end of __main__.  In the main thread the
\* interpreter exits with `status`: the atexit callback, when still
\* registered, runs cleanup_temp_files over the registry (every file object
\* was closed when its with-block was left).  In a worker thread SystemExit
\* passes every `except Exception` and ends the thread silently; the
\* process, and with it the atexit callback, goes on.
ProcessExit(status, fs, registry, registered) ==
    IF InMainThread
    THEN /\ pc' = "exited"
         /\ exit_status' = <<status>>
         /\ files' = IF registered THEN cleanup_temp_files(fs, registry, <<>>)
                     ELSE fs
    ELSE /\ pc' = "thread_done"
         /\ exit_status' = exit_status
         /\ files' = fs

\* The core function returns to its caller: __main__ ends and the process
\* exits with 0, or the GUI worker goes on after the call.
Return(fs, registry, registered) ==
    IF InMainThread
    THEN ProcessExit(ExitOk, fs, registry, registered)
    ELSE /\ pc' = "ft_return"
         /\ exit_status' = exit_status
         /\ files' = fs

\* response.strip(): leading and trailing blanks removed.
RECURSIVE LStrip(_)
LStrip(s) == IF s # <<>> /\ Head(s) = " " THEN LStrip(Tail(s)) ELSE s

RECURSIVE RStrip(_)
RStrip(s) ==
    IF s # <<>> /\ s[Len(s)] = " " THEN RStrip(SubSeq(s, 1, Len(s) - 1)) ELSE s

Strip(s) == RStrip(LStrip(s))

\* What the user may type at a prompt, as a sequence of tokens.
Responses ==
    {<<CONFIRMATION_TEXT>>, <<" ", CONFIRMATION_TEXT, " ">>, <<"i understand">>,
     <<"y">>, <<"YES", " ">>, <<"n">>, <<>>}

\* str.lower() on the tokens a response is made of.
Lower(s) ==
    [i \in 1..Len(s) |->
        CASE s[i] = "YES" -> "yes"
          [] s[i] = "Y" -> "y"
          [] s[i] = CONFIRMATION_TEXT -> "i understand"
          [] OTHER -> s[i]]

\* get_confirmation (829-894): response.strip().lower() in ["y", "yes"]
get_confirmation(response) == Lower(Strip(response)) \in {<<"y">>, <<"yes">>}

---------------------------------------------------------------------------
(* Initial states: the command line is parsed (argparse), nothing ran yet. *)

Entries == {"cli_freespace", "cli_format", "gui_wipe", "gui_format"}

\* -t/--pattern, --verify and -y/--yes (2212-2231); the GUI always passes
\* no_confirm = True to format_disk and has no prompt of its own here.
Args == [pattern : Patterns, verify : BOOLEAN, yes : BOOLEAN]

\* -p/--passes is any int (type=int, default 3); the Spinbox accepts typed
\* values as well.
PassCounts == {0, 1, MaxPasses}

Init ==
    /\ entry \in Entries
    /\ args \in Args
    /\ entry \in {"gui_wipe", "gui_format"} => args.yes
    /\ system \in Systems
    /\ pc = "main"
    /\ exit_status = <<>>
    /\ passes \in PassCounts
    /\ block_size \in BlockSizes
    /\ entry # "cli_freespace" => block_size = DefaultBlockSize
    /\ stages = <<>>
    /\ soft_failed = FALSE
    /\ confirmed = FALSE
    /\ has_hidden = FALSE
    /\ mount_point = "None"
    /\ free_space = 0
    /\ fname = <<"none", 0>>
    /\ temp_files = {}
    /\ files = {}
    /\ f = "unbound"
    /\ atexit_registered = FALSE
    /\ handler = "default"
    /\ p = 0
    /\ mode = "none"
    /\ written = 0
    /\ chunk = NoChunk
    /\ printed = {}
    /\ interrupted = FALSE
    /\ errno = "none"
    /\ io_error = FALSE
    /\ events = <<>>
    /\ operation_running = (entry \in {"gui_wipe", "gui_format"})
    /\ threads = <<>>
    /\ certificate_btn = "disabled"
    /\ wiped = 0
    /\ current_time = 0
    /\ pass_start_time = 0
    /\ last_display_time = 0
    /\ emissions = <<>>
    /\ inputs = <<>>
    /\ returned = <<>>
    /\ size = 0

---------------------------------------------------------------------------
(* __main__: dispatch on args.mode (securewipe.py 2233-2257) *)

main ==
    /\ pc = "main"
    /\ entry \in {"cli_freespace", "cli_format"}
    /\ pc' = IF entry = "cli_format" THEN "fd_check_path" ELSE "wfs_select"
    /\ UNCHANGED <<util, display, errno, operation_running, threads, certificate_btn, entry, args, system, exit_status, passes, block_size,
                   stages, soft_failed,
                   confirmed, has_hidden, mount_point, free_space, fname,
                   temp_files, files, f, atexit_registered, handler, p, mode,
                   written, size, chunk, printed, interrupted, wiped, io_error, events>>

---------------------------------------------------------------------------
(* Groups of variables an action leaves alone *)

config == <<entry, args, system>>

gui == <<operation_running, threads, certificate_btn>>

pipeline == <<stages, soft_failed, confirmed, has_hidden, mount_point>>

hooks == <<temp_files, atexit_registered, handler>>

loop == <<free_space, fname, f, p, mode, written, chunk, errno, size>>

---------------------------------------------------------------------------
(* The best-effort helpers of format_disk.  Each takes the outcome of the   *)
(* external tools and gives what the helper returns to format_disk: every   *)
(* helper wraps its body in try/except Exception, so a raising tool is      *)
(* turned into success = False.  "raise" as a result would mean that the    *)
(* exception leaves the helper.                                             *)

\* clear_drive_cache (1361-1390): hdparm -F on Linux; unmount/mount on
\* macOS (return codes ignored); nothing on Windows.
clear_drive_cache(o) ==
    CASE system = "Linux" -> IF o = "ok" THEN "success" ELSE "failure"
      [] system = "Darwin" -> IF o # "raised" THEN "success" ELSE "failure"
      [] OTHER -> "failure"

\* handle_remapped_sectors (1420-1441): success once smartctl is found.
handle_remapped_sectors(o) ==
    IF system = "Linux" /\ o = "ok" THEN "success" ELSE "failure"

\* check_hpa_dco (1240-1276): has_hidden, False when the check raises.
check_hpa_dco(hidden, o) ==
    IF system \in {"Linux", "Darwin"} /\ o = "ok" THEN hidden ELSE FALSE

\* Variant: the exception of a raising tool leaves the helper.
remove_hpa_dco_raising(o) ==
    CASE o = "raised" -> "raise"
      [] system = "Linux" /\ o = "ok" -> "success"
      [] OTHER -> "failure"

\* remove_hpa_dco (1278-1313): hdparm on Linux; unsupported elsewhere.
remove_hpa_dco(o) ==
    IF system = "Linux" /\ o = "ok" THEN "success" ELSE "failure"

\* write_to_raw_disk (1315-1335): every exception is caught and printed.
write_to_raw_disk(o) == IF o = "ok" THEN "success" ELSE "failure"

\* secure_erase_enhanced (1392-1418)
secure_erase_enhanced(o) ==
    IF system = "Linux" /\ o = "ok" THEN "success" ELSE "failure"

\* clear_smart_data (1337-1359)
clear_smart_data(o) ==
    IF system = "Linux" /\ o = "ok" THEN "success" ELSE "failure"

\* Variant: a failed format returns False instead of ending the process.
perform_format_returning(o) == IF o = "ok" THEN "True" ELSE "False"

\* perform_format (1672-1853): True, or sys.exit(1) on a non-zero return
\* code, a missing tool, an unsupported filesystem or any exception (the
\* error is printed first).  format_disk does not read the returned value.
perform_format(o) == IF o = "ok" THEN "True" ELSE "exit"

\* get_disk_mountpoint (1856-1907): the path, or None when the lookup fails
\* or raises (bare except).
get_disk_mountpoint(o) == IF o = "ok" THEN "path" ELSE "None"

---------------------------------------------------------------------------
(* format_disk (securewipe.py 1443-2199) *)

\* A best-effort stage called from format_disk's top level (1456-1496),
\* outside every try block: a result of "raise" would leave format_disk and
\* end the process with a traceback (status 1).
SoftStage(from, to, stage, result) ==
    /\ pc = from
    /\ stages' = Append(stages, stage)
    /\ soft_failed' = (soft_failed \/ result # "success")
    /\ IF result = "raise"
       THEN ProcessExit(ExitFatal, files, temp_files, atexit_registered)
       ELSE pc' = to /\ UNCHANGED <<exit_status, files>>

\* 1450-1456: the disk path must exist (not checked on Windows).
fd_check_path ==
    /\ pc = "fd_check_path"
    /\ \E exists \in BOOLEAN :
         IF system # "Windows" /\ ~exists
         THEN /\ printed' = printed \cup {"disk_not_found"}
              /\ ProcessExit(ExitFatal, files, temp_files, atexit_registered)
         ELSE /\ pc' = "fd_clear_cache"
              /\ UNCHANGED <<exit_status, files, printed>>
    /\ UNCHANGED <<util, display, config, gui, passes, block_size, pipeline, hooks, loop,
                   interrupted, wiped, io_error, events>>

\* 1458-1461
fd_clear_cache ==
    /\ \E o \in ToolOutcomes :
         SoftStage("fd_clear_cache", "fd_remapped", "CacheFlush",
                   clear_drive_cache(o))
    /\ UNCHANGED <<util, display, config, gui, passes, block_size, confirmed, has_hidden,
                   mount_point, hooks, loop, printed, interrupted, wiped,
                   io_error, events>>

\* 1463-1466: its result is only printed and does not count as a failure.
fd_remapped ==
    /\ pc = "fd_remapped"
    /\ \E o \in ToolOutcomes :
         /\ handle_remapped_sectors(o) \in {"success", "failure"}
         /\ stages' = Append(stages, "RemappedSectors")
    /\ pc' = "fd_check_hpa"
    /\ UNCHANGED <<util, display, config, gui, exit_status, passes, block_size, soft_failed,
                   confirmed, has_hidden, mount_point, hooks, files, loop,
                   printed, interrupted, wiped, io_error, events>>

\* 1468-1473
fd_check_hpa ==
    /\ pc = "fd_check_hpa"
    /\ \E hidden \in BOOLEAN, o \in ToolOutcomes :
         has_hidden' = check_hpa_dco(hidden, o)
    /\ stages' = Append(stages, "HiddenAreaDetect")
    /\ pc' = IF has_hidden' THEN "fd_remove_hpa" ELSE "fd_enhanced"
    /\ UNCHANGED <<util, display, config, gui, exit_status, passes, block_size, soft_failed,
                   confirmed, mount_point, hooks, files, loop, printed,
                   interrupted, wiped, io_error, events>>

\* Variant: the raw overwrite follows the removal whatever its result.
fd_remove_hpa_then_write ==
    /\ \E o \in ToolOutcomes :
         /\ SoftStage("fd_remove_hpa",
                      "fd_raw_write",
                      "HiddenAreaRemoval", remove_hpa_dco(o))
         /\ printed' = IF remove_hpa_dco(o) = "failure"
                       THEN printed \cup {"hidden_warning"} ELSE printed
    /\ UNCHANGED <<util, display, config, gui, passes, block_size, confirmed, has_hidden,
                   mount_point, hooks, loop, interrupted, wiped, io_error, events>>

\* 1473-1483: removal; on success the raw overwrite follows.
fd_remove_hpa ==
    /\ \E o \in ToolOutcomes :
         /\ SoftStage("fd_remove_hpa",
                      IF remove_hpa_dco(o) = "success"
                      THEN "fd_raw_write" ELSE "fd_enhanced",
                      "HiddenAreaRemoval", remove_hpa_dco(o))
         /\ printed' = IF remove_hpa_dco(o) = "failure"
                       THEN printed \cup {"hidden_warning"} ELSE printed
    /\ UNCHANGED <<util, display, config, gui, passes, block_size, confirmed, has_hidden,
                   mount_point, hooks, loop, interrupted, wiped, io_error, events>>

\* 1479-1481: write_to_raw_disk(disk_path, pattern='random')
fd_raw_write ==
    /\ pc = "fd_raw_write"
    /\ \E o \in ToolOutcomes :
         /\ write_to_raw_disk(o) \in {"success", "failure"}
         /\ stages' = Append(stages, "RawOverwrite")
         /\ printed' = IF write_to_raw_disk(o) = "failure"
                       THEN printed \cup {"raw_write_warning"} ELSE printed
    /\ pc' = "fd_enhanced"
    /\ UNCHANGED <<util, display, config, gui, exit_status, passes, block_size, soft_failed,
                   confirmed, has_hidden, mount_point, hooks, files, loop,
                   interrupted, wiped, io_error, events>>

\* 1485-1488
fd_enhanced ==
    /\ \E o \in ToolOutcomes :
         SoftStage("fd_enhanced", "fd_smart", "EnhancedErase",
                   secure_erase_enhanced(o))
    /\ UNCHANGED <<util, display, config, gui, passes, block_size, confirmed, has_hidden,
                   mount_point, hooks, loop, printed, interrupted, wiped,
                   io_error, events>>

\* 1490-1493
fd_smart ==
    /\ \E o \in ToolOutcomes :
         SoftStage("fd_smart", "fd_final_flush", "SmartClear",
                   clear_smart_data(o))
    /\ UNCHANGED <<util, display, config, gui, passes, block_size, confirmed, has_hidden,
                   mount_point, hooks, loop, printed, interrupted, wiped,
                   io_error, events>>

\* 1495-1496: the result of the second flush is not even read.
fd_final_flush ==
    /\ \E o \in ToolOutcomes :
         SoftStage("fd_final_flush", "fd_confirm", "CacheFlush",
                   clear_drive_cache(o))
    /\ UNCHANGED <<util, display, config, gui, passes, block_size, confirmed, has_hidden,
                   mount_point, hooks, loop, printed, interrupted, wiped,
                   io_error, events>>

\* 1498-1669: disk information and the warning box are printed; unless
\* no_confirm, the typed text must equal "I UNDERSTAND" after strip().
fd_confirm ==
    /\ pc = "fd_confirm"
    /\ IF no_confirm
       THEN /\ pc' = "fd_format"
            /\ UNCHANGED <<exit_status, files, confirmed, printed>>
       ELSE \E response \in Responses :
              IF Strip(response) # <<CONFIRMATION_TEXT>>
              THEN /\ printed' = printed \cup {"confirmation_mismatch"}
                   /\ ProcessExit(ExitOk, files, temp_files, atexit_registered)
                   /\ UNCHANGED confirmed
              ELSE /\ confirmed' = TRUE
                   /\ pc' = "fd_format"
                   /\ UNCHANGED <<exit_status, files, printed>>
    /\ UNCHANGED <<util, display, config, gui, passes, block_size, stages, soft_failed,
                   has_hidden, mount_point, hooks, loop, interrupted, wiped,
                   io_error, events>>

\* 1909-1914: step 1, perform_format("Formatting"); the message of a failure
\* is kept as "<step_name>_error".
fd_format ==
    /\ pc = "fd_format"
    /\ stages' = Append(stages, "Format")
    /\ \E o \in ToolOutcomes :
         /\ printed' = IF o = "ok" THEN printed
                       ELSE printed \cup {"Formatting_error"}
         /\ IF perform_format(o) = "exit"
            THEN ProcessExit(ExitFatal, files, temp_files, atexit_registered)
            ELSE pc' = "fd_mountpoint" /\ UNCHANGED <<exit_status, files>>
    /\ UNCHANGED <<util, display, config, gui, passes, block_size, soft_failed, confirmed,
                   has_hidden, mount_point, hooks, loop, interrupted, wiped,
                   io_error, events>>

\* Variant: without a mount point the run stops after the warning, the
\* final format is not reached.
fd_mountpoint_aborting ==
    /\ pc = "fd_mountpoint"
    /\ \E o \in ToolOutcomes : mount_point' = get_disk_mountpoint(o)
    /\ IF mount_point' = "None"
       THEN pc' = "fd_done" /\ printed' = printed \cup {"skip_wipe"}
       ELSE pc' = "fw_setup" /\ printed' = printed
    /\ UNCHANGED <<util, display, config, gui, exit_status, passes, block_size, stages,
                   soft_failed, confirmed, has_hidden, hooks, files, loop,
                   interrupted, wiped, io_error, events>>

\* 1921-1926, 2175-2177: resolve the mount point; None skips the wipe.
fd_mountpoint ==
    /\ pc = "fd_mountpoint"
    /\ \E o \in ToolOutcomes : mount_point' = get_disk_mountpoint(o)
    /\ IF mount_point' = "None"
       THEN pc' = "fd_reformat" /\ printed' = printed \cup {"skip_wipe"}
       ELSE pc' = "fw_setup" /\ printed' = printed
    /\ UNCHANGED <<util, display, config, gui, exit_status, passes, block_size, stages,
                   soft_failed, confirmed, has_hidden, hooks, files, loop,
                   interrupted, wiped, io_error, events>>

---------------------------------------------------------------------------
(* Pattern selection and block generation, one copy per write loop *)

\* {1: 'zeroes', 2: 'ones'}.get(k, 'random')
DictGet(k) == CASE k = 1 -> "zeroes" [] k = 2 -> "ones" [] OTHER -> "random"

\* wipe_free_space 1068-1083
wfs_mode(pat, q) ==
    CASE pat = "zeroes" -> "zeroes"
      [] pat = "ones" -> "ones"
      [] pat = "random" -> "random"
      [] pat = "ticks" -> "ticks"
      [] pat = "haha" -> "haha"
      [] OTHER -> IF q = 0 THEN "random" ELSE DictGet(q % 3)

\* Variant: the cycle is indexed by the 1-based pass number.
fd_mode_shifted(pat, q) == IF pat = "all" THEN DictGet((q + 1) % 3) ELSE pat

\* format_disk 1996-2004
fd_mode(pat, q) ==
    IF pat = "all"
    THEN IF q = 0 THEN "random" ELSE DictGet(q % 3)
    ELSE pat

\* perform_free_space_wipe 943-958
gui_mode(pat, q) ==
    CASE pat = "zeroes" -> "zeroes"
      [] pat = "ones" -> "ones"
      [] pat = "random" -> "random"
      [] pat = "ticks" -> "ticks"
      [] pat = "haha" -> "haha"
      [] OTHER -> IF q = 0 THEN "random" ELSE DictGet(q % 3)

\* wipe_free_space 1123-1136
wfs_chunk(m, n) ==
    CASE m = "random" -> Urandom(n)
      [] m = "ones" -> Filled(255, n)
      [] m = "ticks" -> Tiled(TICKS, n)
      [] m = "haha" -> Tiled(HAHA, n)
      [] OTHER -> Filled(0, n)

\* format_disk 2055-2062: any mode other than random/ones/zeroes falls into
\* the "should never happen" branch and is written as random data.
fd_chunk(m, n) ==
    CASE m = "random" -> Urandom(n)
      [] m = "ones" -> Filled(255, n)
      [] m = "zeroes" -> Filled(0, n)
      [] OTHER -> Urandom(n)

\* perform_free_space_wipe 969-981 (data) and 989-993 (chunk)
gui_chunk(m, n) ==
    IF m = "random"
    THEN Urandom(n)
    ELSE CASE m = "zeroes" -> Filled(0, n)
           [] m = "ones" -> Filled(255, n)
           [] m = "ticks" -> Tiled(TICKS, n)
           [] m = "haha" -> Tiled(HAHA, n)
           [] OTHER -> Urandom(n)

\* Variant: the amount is shown as counted, without the clamp.
pass_wiped_unclamped(w, fs) == w

\* 1203, 2145: the amount shown in a pass summary; securewipeUI.py 1003: the
\* amount shown in a GUI progress event.
pass_wiped(w, fs) == Min(w, fs)

\* 1226, 2161: the amount shown in the final summary.
total_wiped(w, n, fs) == Min(w * n, fs)

\* 1138: bytes of a refused block that had reached the file when write()
\* raised ENOSPC or EFBIG.
PartialWrites == {0, 1}

\* get_free_space (480-491): the measured free bytes; 0 when both probes fail.
FreeSpaces(n) == {k * n : k \in 0..MaxFreeBlocks}

---------------------------------------------------------------------------
(* format_disk, step 2: the free-space wipe (1928-2174) *)

\* 1928-1993: measure, build the registry, register the atexit callback and
\* install the SIGINT handler.
fw_setup ==
    /\ pc = "fw_setup"
    /\ stages' = Append(stages, "FreeSpaceWipe")
    /\ block_size' = DefaultBlockSize
    /\ free_space' \in FreeSpaces(DefaultBlockSize)
    /\ fname' = <<"Securewipe_Complete_disk", 0>>
    /\ temp_files' = {fname'}
    /\ atexit_registered' = TRUE
    /\ IF InMainThread
       THEN /\ handler' = "format_disk"
            /\ pc' = "fw_pass"
            /\ p' = 0
            /\ printed' = printed
       ELSE \* signal.signal is only allowed in the main thread: it raises
            \* ValueError, caught at 2172
            /\ handler' = handler
            /\ pc' = "fd_reformat"
            /\ p' = p
            /\ printed' = printed \cup {"wipe_error"}
    /\ UNCHANGED <<util, display, errno, config, gui, exit_status, passes, soft_failed, confirmed,
                   has_hidden, mount_point, files, f, mode, written, size, chunk,
                   interrupted, wiped, io_error, events>>

\* 1996-2050: loop head and per-pass initialisation.
fw_pass ==
    /\ pc = "fw_pass"
    /\ IF p < passes
       THEN /\ mode' = fd_mode(pattern, p)
            /\ written' = 0
            /\ UNCHANGED size
            /\ fname' = <<"Securewipe_Complete_disk", p + 1>>
            /\ temp_files' = temp_files \cup {fname'}
            /\ files' = files \ {fname'}
            /\ pc' = "fw_open"
       ELSE /\ pc' = "fw_summary"
            /\ UNCHANGED <<mode, written, size, fname, temp_files, files>>
    /\ UNCHANGED <<util, display, errno, config, gui, exit_status, passes, block_size, pipeline,
                   free_space, f, atexit_registered, handler, p, chunk,
                   printed, interrupted, wiped, io_error, events>>

\* 2052-2053, 2113-2114: open(fname, 'wb'); a failure is printed by the
\* except Exception clause and the pass goes on to its cleanup.
fw_open ==
    /\ pc = "fw_open"
    /\ \E ok \in BOOLEAN :
         IF ok
         THEN /\ files' = files \cup {fname}
              /\ f' = "open"
              /\ pc' = "fw_write"
              /\ size' = 0
              /\ printed' = printed
         ELSE /\ pc' = "fw_finally"
              /\ printed' = printed \cup {"wipe_pass_error"}
              /\ UNCHANGED <<files, f, size>>
    /\ UNCHANGED <<util, display, errno, config, gui, exit_status, passes, block_size, pipeline,
                   free_space, fname, hooks, p, mode, written, chunk,
                   interrupted, wiped, io_error, events>>

\* Variant: the loop is also left when the counter reaches the free space
\* measured before the pass.
fw_write_until_free_space ==
    /\ pc = "fw_write"
    /\ chunk' = fd_chunk(mode, block_size)
    /\ \E o \in WriteOutcomes :
         CASE o = "ok" ->
                /\ written < MaxBlocks * block_size
                /\ written' = written + block_size
                /\ size' = size + block_size
                /\ IF written' >= free_space
                   THEN pc' = "fw_finally" /\ f' = "closed"
                   ELSE UNCHANGED <<pc, f>>
                /\ UNCHANGED <<printed, errno, io_error>>
           [] o = "ENOSPC" ->
                /\ pc' = "fw_finally"
                /\ f' = "closed"
                /\ errno' = o
                /\ \E partial \in PartialWrites : size' = size + partial
                /\ UNCHANGED <<written, printed, io_error>>
           [] OTHER ->
                /\ pc' = "fw_finally"
                /\ f' = "closed"
                /\ errno' = o
                /\ printed' = printed \cup {"write_error"}
                /\ io_error' = (io_error \/ o = "EIO")
                /\ UNCHANGED <<written, size>>
    /\ UNCHANGED <<util, display, config, gui, exit_status, passes, block_size, pipeline,
                   free_space, fname, hooks, files, p, mode, interrupted, wiped,
                   events>>

\* 2054-2111: one iteration of the write loop.  ENOSPC breaks silently;
\* every other OSError is printed as "Error: ..." and breaks as well.
fw_write ==
    /\ pc = "fw_write"
    /\ chunk' = fd_chunk(mode, block_size)
    /\ \E o \in WriteOutcomes :
         CASE o = "ok" ->
                /\ written < MaxBlocks * block_size
                /\ written' = written + block_size
                /\ size' = size + block_size
                /\ UNCHANGED <<pc, f, printed, errno, io_error>>
           [] o = "ENOSPC" ->
                /\ pc' = "fw_finally"
                /\ f' = "closed"
                /\ errno' = o
                /\ \E partial \in PartialWrites : size' = size + partial
                /\ UNCHANGED <<written, printed, io_error>>
           [] OTHER ->
                /\ pc' = "fw_finally"
                /\ f' = "closed"
                /\ errno' = o
                /\ printed' = printed \cup {"write_error"}
                /\ io_error' = (io_error \/ o = "EIO")
                /\ UNCHANGED <<written, size>>
    /\ UNCHANGED <<util, display, config, gui, exit_status, passes, block_size, pipeline,
                   free_space, fname, hooks, files, p, mode, interrupted, wiped,
                   events>>

\* 2115-2125: progress bar closed; os.fsync(f.fileno()) raises ValueError on
\* the closed file (or f is unbound) and the exception is swallowed.
fw_finally ==
    /\ pc = "fw_finally"
    /\ pc' = "fw_remove"
    /\ errno' = "none"
    /\ UNCHANGED <<util, display, config, gui, exit_status, passes, block_size, pipeline, hooks,
                   files, free_space, fname, f, p, mode, written, size, chunk,
                   printed, interrupted, wiped, io_error, events>>

\* 2127-2147: remove the temp file, drop it from the registry, report the
\* pass as complete.
fw_remove ==
    /\ pc = "fw_remove"
    /\ IF fname \in files
       THEN files' = files \ {fname} /\ temp_files' = temp_files \ {fname}
       ELSE UNCHANGED <<files, temp_files>>
    /\ printed' = printed \cup {"pass_complete"}
    /\ wiped' = pass_wiped(written, free_space)
    /\ p' = p + 1
    /\ size' = 0
    /\ pc' = "fw_pass"
    /\ UNCHANGED <<util, display, errno, config, gui, exit_status, passes, block_size, pipeline,
                   free_space, fname, f, atexit_registered, handler, mode,
                   written, chunk, interrupted, io_error, events>>

\* Variant: the exception raised inside the wipe stage is not caught at 2172
\* and ends the run.
fw_summary_uncaught ==
    /\ pc = "fw_summary"
    /\ IF passes <= 0
       THEN /\ printed' = printed \cup {"wipe_error"}
            /\ UNCHANGED wiped
            /\ ProcessExit(ExitFatal, files, temp_files, atexit_registered)
            /\ UNCHANGED <<handler, atexit_registered>>
       ELSE /\ printed' = printed \cup {"wiping_complete"}
            /\ wiped' = total_wiped(written, passes, free_space)
            /\ handler' = "default"
            /\ atexit_registered' = FALSE
            /\ files' = cleanup_temp_files(files, temp_files, <<>>)
            /\ pc' = "fd_reformat"
            /\ UNCHANGED exit_status
    /\ UNCHANGED <<util, display, config, gui, passes, block_size, pipeline, temp_files, loop,
                   interrupted, io_error, events>>

\* 2149-2174: the summary reads `written`, which is unbound when the loop
\* body never ran (NameError, caught at 2172: the handler and the atexit
\* callback then stay installed).
fw_summary ==
    /\ pc = "fw_summary"
    /\ IF passes <= 0
       THEN /\ printed' = printed \cup {"wipe_error"}
            /\ UNCHANGED wiped
            /\ UNCHANGED <<handler, atexit_registered, files>>
       ELSE /\ printed' = printed \cup {"wiping_complete"}
            /\ wiped' = total_wiped(written, passes, free_space)
            /\ handler' = "default"
            /\ atexit_registered' = FALSE
            /\ files' = cleanup_temp_files(files, temp_files, <<>>)
    /\ pc' = "fd_reformat"
    /\ UNCHANGED <<util, display, config, gui, exit_status, passes, block_size, pipeline,
                   temp_files, loop, interrupted, io_error, events>>

\* 2179-2199: step 3, perform_format("Final formatting"), then the
\* completion box; format_disk returns and the process ends normally.
fd_reformat ==
    /\ pc = "fd_reformat"
    /\ stages' = Append(stages, "Reformat")
    /\ \E o \in ToolOutcomes :
         IF perform_format(o) = "exit"
         THEN /\ printed' = printed \cup {"Final_formatting_error"}
              /\ ProcessExit(ExitFatal, files, temp_files, atexit_registered)
         ELSE /\ printed' = (IF o = "ok" THEN printed
                             ELSE printed \cup {"Final_formatting_error"})
                            \cup {"erase_complete"}
              /\ Return(files, temp_files, atexit_registered)
    /\ UNCHANGED <<util, display, config, gui, passes, block_size, soft_failed, confirmed,
                   has_hidden, mount_point, hooks, loop, interrupted, wiped,
                   io_error, events>>

---------------------------------------------------------------------------
(* wipe_free_space (securewipe.py 902-1235) *)

\* 902-916: pick the target.  interactive_drive_selection (494-561) exits
\* with 1 when no drive is found and with 0 when the user types 'q'.
wfs_select ==
    /\ pc = "wfs_select"
    /\ \E r \in {"path", "no_drives", "quit"} :
         CASE r = "path" ->
                /\ free_space' \in FreeSpaces(block_size)
                /\ pc' = "wfs_device"
                /\ UNCHANGED <<exit_status, files, printed>>
           [] r = "no_drives" ->
                /\ printed' = printed \cup {"no_drives"}
                /\ ProcessExit(ExitFatal, files, temp_files, atexit_registered)
                /\ UNCHANGED free_space
           [] OTHER ->
                /\ printed' = printed \cup {"aborted"}
                /\ ProcessExit(ExitOk, files, temp_files, atexit_registered)
                /\ UNCHANGED free_space
    /\ UNCHANGED <<util, display, errno, config, gui, passes, block_size, pipeline, hooks, fname, f, p,
                   mode, written, size, chunk, interrupted, wiped, io_error, events>>

\* 918-993: when the device behind the mount point is found the user may
\* switch to full-disk mode; format_disk is then called with the pattern,
\* the verify flag and no_confirm, and with its default pass count.
wfs_device ==
    /\ pc = "wfs_device"
    /\ \E device_found \in BOOLEAN, response \in Responses :
         IF device_found /\ get_confirmation(response)
         THEN /\ passes' = DefaultPasses
              /\ pc' = "fd_check_path"
         ELSE /\ passes' = passes
              /\ pc' = "wfs_setup"
    /\ UNCHANGED <<util, display, config, gui, exit_status, block_size, pipeline, hooks, files,
                   loop, printed, interrupted, wiped, io_error, events>>

\* 995-1055: second measurement when the first gave 0, registry, atexit
\* callback, SIGINT handler, time estimate.
wfs_setup ==
    /\ pc = "wfs_setup"
    /\ IF free_space = 0
       THEN free_space' \in FreeSpaces(block_size)
       ELSE free_space' = free_space
    /\ fname' = <<"Securewipe_free_space", 0>>
    /\ temp_files' = {fname'}
    /\ atexit_registered' = TRUE
    /\ handler' = "wipe_free_space"
    /\ pc' = "wfs_confirm"
    /\ UNCHANGED <<util, display, errno, config, gui, exit_status, passes, block_size, pipeline, files,
                   f, p, mode, written, size, chunk, printed, interrupted, wiped, io_error,
                   events>>

\* 1057-1065: y/n confirmation; anything but y/yes ends the run with 0.
wfs_confirm ==
    /\ pc = "wfs_confirm"
    /\ IF no_confirm
       THEN /\ pc' = "wfs_pass"
            /\ UNCHANGED <<exit_status, files, printed>>
       ELSE \E response \in Responses :
              IF get_confirmation(response)
              THEN /\ pc' = "wfs_pass"
                   /\ UNCHANGED <<exit_status, files, printed>>
              ELSE /\ printed' = printed \cup {"aborted"}
                   /\ ProcessExit(ExitOk, files, temp_files, atexit_registered)
    /\ p' = 0
    /\ UNCHANGED <<util, display, errno, config, gui, passes, block_size, pipeline, hooks, free_space,
                   fname, f, mode, written, size, chunk, interrupted, wiped, io_error,
                   events>>

\* 1068-1118: loop head and per-pass initialisation.
wfs_pass ==
    /\ pc = "wfs_pass"
    /\ IF p < passes
       THEN /\ mode' = wfs_mode(pattern, p)
            /\ written' = 0
            /\ UNCHANGED size
            /\ pc' = "wfs_open"
       ELSE /\ pc' = "wfs_summary"
            /\ UNCHANGED <<mode, written, size>>
    /\ UNCHANGED <<util, display, errno, config, gui, exit_status, passes, block_size, pipeline, hooks,
                   files, free_space, fname, f, p, chunk, printed,
                   interrupted, wiped, io_error, events>>

\* 1120-1121, 1179-1183: open(fname, 'wb'); an OSError other than
\* ENOSPC/EFBIG is printed, and the pass goes on to its finally block.
wfs_open ==
    /\ pc = "wfs_open"
    /\ \E o \in {"ok", "ENOSPC", "EACCES"} :
         CASE o = "ok" ->
                /\ files' = files \cup {fname}
                /\ f' = "open"
                /\ pc' = "wfs_write"
                /\ size' = 0
                /\ UNCHANGED <<printed, errno>>
           [] o = "ENOSPC" ->
                /\ pc' = "wfs_finally"
                /\ errno' = o
                /\ UNCHANGED <<files, f, printed, size>>
           [] OTHER ->
                /\ pc' = "wfs_finally"
                /\ errno' = o
                /\ printed' = printed \cup {"write_error"}
                /\ UNCHANGED <<files, f, size>>
    /\ UNCHANGED <<util, display, config, gui, exit_status, passes, block_size, pipeline, hooks,
                   free_space, fname, p, mode, written, chunk, interrupted, wiped,
                   io_error, events>>

\* Variant: the counter is advanced before the write is known to have
\* succeeded, so a write refused for lack of space is counted.
wfs_write_counting ==
    /\ pc = "wfs_write"
    /\ chunk' = wfs_chunk(mode, block_size)
    /\ \E o \in WriteOutcomes :
         CASE o = "ok" ->
                /\ written < MaxBlocks * block_size
                /\ written' = written + block_size
                /\ size' = size + block_size
                /\ UNCHANGED <<pc, f, printed, errno, io_error>>
           [] o \in {"ENOSPC", "EFBIG"} ->
                /\ pc' = "wfs_finally"
                /\ f' = "closed"
                /\ errno' = o
                /\ written' = written + block_size
                /\ \E partial \in PartialWrites : size' = size + partial
                /\ UNCHANGED <<printed, io_error>>
           [] OTHER ->
                /\ pc' = "wfs_finally"
                /\ f' = "closed"
                /\ errno' = o
                /\ printed' = printed \cup {"write_error"}
                /\ io_error' = TRUE
                /\ UNCHANGED <<written, size>>
    /\ UNCHANGED <<util, display, config, gui, exit_status, passes, block_size, pipeline, hooks,
                   files, free_space, fname, p, mode, interrupted, wiped, events>>

\* 1122-1183: one iteration of the write loop.  An OSError leaves the
\* with-block (the file is closed); ENOSPC and EFBIG are silent, any other
\* error is printed; in both cases execution continues after the try.
wfs_write ==
    /\ pc = "wfs_write"
    /\ chunk' = wfs_chunk(mode, block_size)
    /\ \E o \in WriteOutcomes :
         CASE o = "ok" ->
                /\ written < MaxBlocks * block_size
                /\ written' = written + block_size
                /\ size' = size + block_size
                /\ UNCHANGED <<pc, f, printed, errno, io_error>>
           [] o \in {"ENOSPC", "EFBIG"} ->
                /\ pc' = "wfs_finally"
                /\ f' = "closed"
                /\ errno' = o
                /\ \E partial \in PartialWrites : size' = size + partial
                /\ UNCHANGED <<written, printed, io_error>>
           [] OTHER ->
                /\ pc' = "wfs_finally"
                /\ f' = "closed"
                /\ errno' = o
                /\ printed' = printed \cup {"write_error"}
                /\ io_error' = TRUE
                /\ UNCHANGED <<written, size>>
    /\ UNCHANGED <<util, display, config, gui, exit_status, passes, block_size, pipeline, hooks,
                   files, free_space, fname, p, mode, interrupted, wiped, events>>

\* 1184-1193: progress bar closed; os.fsync(f.fileno()) raises ValueError on
\* the closed file (or f is unbound) and the exception is swallowed.
wfs_finally ==
    /\ pc = "wfs_finally"
    /\ pc' = "wfs_remove"
    /\ errno' = "none"
    /\ UNCHANGED <<util, display, config, gui, exit_status, passes, block_size, pipeline, hooks,
                   files, free_space, fname, f, p, mode, written, size, chunk,
                   printed, interrupted, wiped, io_error, events>>

\* 1195-1213: remove the temp file, drop it from the registry, report the
\* pass as complete (and, with verify, print that verification is complete).
wfs_remove ==
    /\ pc = "wfs_remove"
    /\ IF fname \in files
       THEN files' = files \ {fname} /\ temp_files' = temp_files \ {fname}
       ELSE UNCHANGED <<files, temp_files>>
    /\ printed' = printed \cup {"pass_complete"}
                  \cup (IF verify THEN {"verification_complete"} ELSE {})
    /\ wiped' = pass_wiped(written, free_space)
    /\ p' = p + 1
    /\ size' = 0
    /\ pc' = "wfs_pass"
    /\ UNCHANGED <<util, display, errno, config, gui, exit_status, passes, block_size, pipeline,
                   free_space, fname, f, atexit_registered, handler, mode,
                   written, chunk, interrupted, io_error, events>>

\* 1215-1229: the summary reads `written`, which is unbound when the loop
\* body never ran: the UnboundLocalError runs the outer finally block
\* (1231-1235) and leaves __main__ uncaught, status 1.
wfs_summary ==
    /\ pc = "wfs_summary"
    /\ IF passes <= 0
       THEN /\ atexit_registered' = FALSE
            /\ UNCHANGED wiped
            /\ printed' = printed \cup {"traceback"}
            /\ ProcessExit(ExitFatal,
                           cleanup_temp_files(files, temp_files, <<>>),
                           temp_files, FALSE)
       ELSE /\ printed' = printed \cup {"wiping_complete"}
            /\ wiped' = total_wiped(written, passes, free_space)
            /\ pc' = "wfs_outer_finally"
            /\ UNCHANGED <<exit_status, files, atexit_registered>>
    /\ UNCHANGED <<util, display, config, gui, passes, block_size, pipeline, temp_files, handler,
                   loop, interrupted, io_error, events>>

\* 1231-1235: atexit.unregister, cleanup_temp_files(); wipe_free_space
\* returns and the process ends normally.
wfs_outer_finally ==
    /\ pc = "wfs_outer_finally"
    /\ atexit_registered' = FALSE
    /\ ProcessExit(ExitOk, cleanup_temp_files(files, temp_files, <<>>),
                   temp_files, FALSE)
    /\ UNCHANGED <<util, display, config, gui, passes, block_size, pipeline, temp_files, handler,
                   loop, printed, interrupted, wiped, io_error, events>>

---------------------------------------------------------------------------
(* SIGINT (Ctrl+C) delivered to the command-line process.  Python runs the  *)
(* installed handler in the main thread at the current position; what the   *)
(* handler raises unwinds the try/finally blocks that enclose `pc`.         *)

\* Positions inside a bare `except:` that swallows KeyboardInterrupt:
\* get_free_space (485, 490), the device lookup of wipe_free_space
\* (927, 936, 953) and get_disk_mountpoint (1877, 1887, 1903).
SwallowPcs == {"wfs_select", "wfs_device", "wfs_setup", "fd_mountpoint", "fw_setup"}

\* Default handler: KeyboardInterrupt is raised at pc.  Either a bare
\* except swallows it and the run goes on, or it reaches __main__
\* (2258-2261), which exits with 130.
SigIntDefault ==
    /\ handler = "default"
    /\ \/ /\ pc \in SwallowPcs
          /\ pc' = CASE pc = "fd_mountpoint" -> "fd_reformat"
                     [] pc = "wfs_device" -> "wfs_setup"
                     [] OTHER -> pc
          /\ printed' = IF pc = "fd_mountpoint"
                        THEN printed \cup {"skip_wipe"} ELSE printed
          /\ UNCHANGED <<exit_status, files>>
       \/ /\ printed' = printed \cup {"canceled"}
          /\ ProcessExit(ExitInterrupted, files, temp_files, atexit_registered)
    /\ UNCHANGED <<temp_files, atexit_registered, f>>

\* wipe_free_space.signal_handler (1020-1032): cleanup_temp_files(), then
\* sys.exit(130).  The SystemExit unwinds from pc:
\*  - in the with-block (1120-1177): the file is closed and the inner
\*    finally block (1184-1201) runs, removing fname;
\*  - in the inner finally block itself: the rest of that block is skipped;
\*  - inside the outer try (1067-1229): the outer finally block (1231-1235)
\*    unregisters the atexit callback and calls cleanup_temp_files().
SigIntWipe ==
    /\ handler = "wipe_free_space"
    /\ printed' = printed \cup {"canceled"}
    /\ LET after_handler == cleanup_temp_files(files, temp_files, OpenName)
           in_with == pc \in {"wfs_open", "wfs_write"}
           in_outer_try == pc \in {"wfs_pass", "wfs_open", "wfs_write",
                                   "wfs_finally", "wfs_remove", "wfs_summary"}
           removed == in_with /\ fname \in after_handler
           after_inner == IF in_with THEN after_handler \ {fname}
                          ELSE after_handler
           reg == IF removed THEN temp_files \ {fname} ELSE temp_files
       IN  /\ temp_files' = reg
           /\ f' = IF f = "open" THEN "closed" ELSE f
           /\ atexit_registered' = (atexit_registered /\ ~in_outer_try)
           /\ IF in_outer_try
              THEN ProcessExit(ExitInterrupted,
                               cleanup_temp_files(after_inner, reg, <<>>),
                               reg, FALSE)
              ELSE ProcessExit(ExitInterrupted, after_handler, reg,
                               atexit_registered)

\* format_disk.signal_handler (1955-1964): cleanup_temp_files(), then
\* sys.exit(130).  No except clause of format_disk catches SystemExit and
\* its finally block (2115-2125) removes nothing; the atexit callback,
\* still registered, runs at interpreter exit.
SigIntFormat ==
    /\ handler = "format_disk"
    /\ printed' = printed \cup {"canceled"}
    /\ f' = IF f = "open" THEN "closed" ELSE f
    /\ ProcessExit(ExitInterrupted,
                   cleanup_temp_files(files, temp_files, OpenName),
                   temp_files, atexit_registered)
    /\ UNCHANGED <<temp_files, atexit_registered>>

SigInt ==
    /\ InMainThread
    /\ IsRunning
    /\ ~interrupted
    /\ interrupted' = TRUE
    /\ SigIntDefault \/ SigIntWipe \/ SigIntFormat
    /\ mount_point' = IF handler = "default" /\ pc = "fd_mountpoint"
                         /\ pc' = "fd_reformat"
                      THEN "None" ELSE mount_point
    /\ UNCHANGED <<util, display, errno, config, gui, passes, block_size, stages, soft_failed,
                   confirmed, has_hidden, handler, free_space, fname, p,
                   mode, written, size, chunk, io_error, events, wiped>>

---------------------------------------------------------------------------
(* The GUI worker thread: SecureWipeGUI.wipe_thread (securewipeUI.py        *)
(* 635-663) running perform_free_space_wipe (935-1033).  Only the events    *)
(* that end or qualify the operation are kept in `events`.                  *)

\* perform_free_space_wipe 1027-1033 and wipe_thread 662-663: on any
\* exception the temp file is removed (errors ignored), the exception is
\* re-raised and wipe_thread reports it with an "error" event.
gui_raise ==
    /\ files' = files \ {fname}
    /\ events' = Append(events, "error")
    /\ pc' = "thread_done"
    /\ size' = 0

\* wipe_thread 637-658: read the settings, log them, call
\* perform_free_space_wipe (937-940).
wipe_thread ==
    /\ pc = "main"
    /\ entry = "gui_wipe"
    /\ fname' = <<"securewipe_free_space", 0>>
    /\ p' = 0
    /\ pc' = "gw_pass"
    /\ UNCHANGED <<util, display, errno, config, gui, exit_status, passes, block_size, pipeline, hooks, files, free_space,
                   f, mode, written, size, chunk, printed, interrupted, wiped, io_error,
                   events>>

\* 943-984: loop head; the pattern of the pass; free space is measured for
\* every pass and a pass with none ends the loop.
gw_pass ==
    /\ pc = "gw_pass"
    /\ IF p < passes
       THEN /\ mode' = gui_mode(pattern, p)
            /\ free_space' \in FreeSpaces(block_size)
            /\ IF free_space' <= 0
               THEN /\ events' = Append(events, "no_free_space")
                    /\ pc' = "gw_return"
                    /\ UNCHANGED <<written, size>>
               ELSE /\ written' = 0
                    /\ UNCHANGED size
                    /\ pc' = "gw_open"
                    /\ UNCHANGED events
       ELSE /\ pc' = "gw_return"
            /\ UNCHANGED <<mode, free_space, written, size, events>>
    /\ UNCHANGED <<util, display, errno, config, gui, exit_status, passes, block_size, pipeline, hooks,
                   files, fname, f, p, chunk, printed, interrupted, wiped, io_error>>

\* 985: open(fname, 'wb')
gw_open ==
    /\ pc = "gw_open"
    /\ \E ok \in BOOLEAN :
         IF ok
         THEN /\ files' = files \cup {fname}
              /\ f' = "open"
              /\ pc' = "gw_write"
              /\ size' = 0
              /\ UNCHANGED events
         ELSE gui_raise /\ UNCHANGED f
    /\ UNCHANGED <<util, display, errno, config, gui, exit_status, passes, block_size, pipeline, hooks,
                   free_space, fname, p, mode, written, chunk, printed,
                   interrupted, wiped, io_error>>

\* 986-1012: one iteration of the write loop.  ENOSPC/EFBIG break; any
\* other OSError is re-raised.
gw_write ==
    /\ pc = "gw_write"
    /\ chunk' = gui_chunk(mode, block_size)
    /\ \E o \in WriteOutcomes :
         CASE o = "ok" ->
                /\ written < MaxBlocks * block_size
                /\ written' = written + block_size
                /\ wiped' = pass_wiped(written', free_space)
                /\ size' = size + block_size
                /\ UNCHANGED <<pc, f, files, errno, io_error, events>>
           [] o \in {"ENOSPC", "EFBIG"} ->
                /\ pc' = "gw_verify"
                /\ f' = "closed"
                /\ errno' = o
                /\ \E partial \in PartialWrites : size' = size + partial
                /\ UNCHANGED <<written, files, io_error, events, wiped>>
           [] OTHER ->
                /\ f' = "closed"
                /\ errno' = o
                /\ io_error' = TRUE
                /\ gui_raise
                /\ UNCHANGED <<written, wiped>>
    /\ UNCHANGED <<util, display, config, gui, exit_status, passes, block_size, pipeline, hooks,
                   free_space, fname, p, mode, printed, interrupted>>

\* 1014-1025: with verify, the size of the temp file must equal `written`;
\* then the temp file is removed.
gw_verify ==
    /\ pc = "gw_verify"
    /\ errno' = "none"
    /\ IF verify /\ size # written
       THEN gui_raise /\ UNCHANGED p
       ELSE /\ files' = files \ {fname}
            /\ size' = 0
            /\ p' = p + 1
            /\ pc' = "gw_pass"
            /\ UNCHANGED events
    /\ UNCHANGED <<util, display, config, gui, exit_status, passes, block_size, pipeline, hooks,
                   free_space, fname, f, mode, written, chunk, printed,
                   interrupted, wiped, io_error>>

\* wipe_thread 660: perform_free_space_wipe returned.
gw_return ==
    /\ pc = "gw_return"
    /\ events' = Append(events, "complete")
    /\ pc' = "thread_done"
    /\ UNCHANGED <<util, display, config, gui, exit_status, passes, block_size, pipeline, hooks,
                   files, loop, printed, interrupted, wiped, io_error>>

\* format_thread (687-703) and perform_disk_format (1035-1064): read the
\* settings, put the "status" message, call format_disk(no_confirm=True).
format_thread ==
    /\ pc = "main"
    /\ entry = "gui_format"
    /\ events' = Append(events, "status")
    /\ pc' = "fd_check_path"
    /\ UNCHANGED <<util, display, config, gui, exit_status, passes, block_size, pipeline,
                   hooks, files, loop, printed, interrupted, wiped, io_error>>

\* format_thread 705: format_disk returned.
ft_return ==
    /\ pc = "ft_return"
    /\ events' = Append(events, "complete")
    /\ pc' = "thread_done"
    /\ UNCHANGED <<util, display, config, gui, exit_status, passes, block_size, pipeline,
                   hooks, files, loop, printed, interrupted, wiped, io_error>>

---------------------------------------------------------------------------

Next ==
    \/ main
    \/ fd_check_path
    \/ fd_clear_cache
    \/ fd_remapped
    \/ fd_check_hpa
    \/ fd_remove_hpa
    \/ fd_raw_write
    \/ fd_enhanced
    \/ fd_smart
    \/ fd_final_flush
    \/ fd_confirm
    \/ fd_format
    \/ fd_mountpoint
    \/ fw_setup
    \/ fw_pass
    \/ fw_open
    \/ fw_write
    \/ fw_finally
    \/ fw_remove
    \/ fw_summary
    \/ fd_reformat
    \/ wfs_select
    \/ wfs_device
    \/ wfs_setup
    \/ wfs_confirm
    \/ wfs_pass
    \/ wfs_open
    \/ wfs_write
    \/ wfs_finally
    \/ wfs_remove
    \/ wfs_summary
    \/ wfs_outer_finally
    \/ SigInt
    \/ wipe_thread
    \/ gw_pass
    \/ gw_open
    \/ gw_write
    \/ gw_verify
    \/ gw_return
    \/ format_thread
    \/ ft_return

Spec == Init /\ [][Next]_vars

---------------------------------------------------------------------------
(* Properties *)

\* C1: in format_disk with no_confirm false, no sanitization stage has
\* executed as long as the caller has not typed exactly "I UNDERSTAND"; a
\* run ended by a differing text has executed no stage.
C1_NoStageBeforeConfirmation ==
    (~no_confirm /\ ~confirmed) => stages = <<>>

\* The first format of format_disk printed its error.
FirstFormatFailed == "Formatting_error" \in printed

\* C2: when the first format invocation of format_disk fails, the run has
\* ended through sys.exit(1) (the process with exit status 1; in the GUI the
\* worker thread) and neither FreeSpaceWipe nor Reformat was started.
C2_FormatFailureIsFatal ==
    FirstFormatFailed =>
        /\ IF InMainThread
           THEN pc = "exited" /\ ExitedWith(ExitFatal)
           ELSE pc = "thread_done"
        /\ \A i \in 1..Len(stages) : stages[i] \notin {"FreeSpaceWipe", "Reformat"}

C2_Witness ==
    /\ FirstFormatFailed
    /\ stages # <<>>
    /\ stages[Len(stages)] = "Format"

\* Positions of the best-effort stages CacheFlush, HiddenAreaRemoval,
\* EnhancedErase, SmartClear and the second CacheFlush.
SoftStagePcs ==
    {"fd_clear_cache", "fd_remove_hpa", "fd_enhanced", "fd_smart",
     "fd_final_flush"}

\* C3: a step of CacheFlush, HiddenAreaRemoval, EnhancedErase or SmartClear,
\* whatever its external tools do (success, failure, exception), never ends
\* format_disk: the process is still running and stands at a later stage of
\* the pipeline.  (A SIGINT delivered at that position is not such a step.)
C3_SoftStageNeverHalts ==
    [][(pc \in SoftStagePcs /\ interrupted' = interrupted)
         => /\ exit_status' = <<>>
            /\ pc' \in {"fd_remapped", "fd_raw_write", "fd_enhanced",
                        "fd_smart", "fd_final_flush", "fd_confirm"}
            /\ pc' # pc]_vars

\* A run in which hidden-area removal failed (no raw overwrite followed) and
\* that went on through Format, FreeSpaceWipe and Reformat.
C3_Witness ==
    /\ soft_failed
    /\ \E i \in 1..Len(stages) : stages[i] = "HiddenAreaRemoval"
    /\ \A i \in 1..Len(stages) : stages[i] # "RawOverwrite"
    /\ \E i, j, k \in 1..Len(stages) :
         /\ i < j /\ j < k
         /\ stages[i] = "Format"
         /\ stages[j] = "FreeSpaceWipe"
         /\ stages[k] = "Reformat"

HasStage(stage) == \E i \in 1..Len(stages) : stages[i] = stage

FormatSucceeded == HasStage("Format") /\ "Formatting_error" \notin printed

ReformatSucceeded ==
    HasStage("Reformat") /\ "Final_formatting_error" \notin printed

\* C4: format_disk prints its completion summary and returns normally
\* (status 0) exactly when both the Format and the Reformat invocation
\* succeeded; nothing that happens in another stage, an exception inside
\* the free-space wipe included, keeps a run whose Format succeeded from
\* reaching Reformat (only an interrupt does).
C4_SuccessIffBothFormats ==
    /\ "erase_complete" \in printed <=> (FormatSucceeded /\ ReformatSucceeded)
    /\ "erase_complete" \in printed =>
         IF InMainThread THEN ExitedWith(ExitOk)
         ELSE pc \in {"ft_return", "thread_done"}
    /\ (pc \in {"exited", "thread_done"} /\ FormatSucceeded
          /\ ~ExitedWith(ExitInterrupted))
         => HasStage("Reformat")

\* Success reported although best-effort stages failed and an exception was
\* raised inside the free-space wipe.
C4_Witness ==
    /\ "erase_complete" \in printed
    /\ soft_failed
    /\ "wipe_error" \in printed


\* C5: wipe_free_space and the free-space stage of format_disk: once the
\* process has exited after a SIGINT handled by the installed handler
\* (whenever it arrived: during a write, between blocks, in the per-pass
\* cleanup, between passes, in any pass), no temp file of the run is on disk.
C5_NoTempFileAfterInterrupt ==
    (ExitedWith(ExitInterrupted) /\ handler # "default") => files = {}

\* C6: exit statuses tell the outcomes apart: an interrupted run ends with
\* 130 and only a run that completed normally ends with 0, so no run that
\* received SIGINT or that hit a write error ends with status 0.
C6_StatusTellsOutcome ==
    /\ (interrupted /\ pc = "exited") => ExitedWith(ExitInterrupted)
    /\ ExitedWith(ExitOk) => (~interrupted /\ ~io_error)

\* C7: in every write loop, once a write failed with an error other than
\* storage-full, the operation ends in failure: no further pass is started,
\* no completion is reported and the run does not end with status 0.
C7_WriteErrorEndsInFailure ==
    io_error =>
        /\ pc \notin {"wfs_open", "wfs_write", "fw_open", "fw_write",
                      "gw_open", "gw_write"}
        /\ "wiping_complete" \notin printed
        /\ "erase_complete" \notin printed
        /\ ~ExitedWith(ExitOk)
        /\ \A i \in 1..Len(events) : events[i] # "complete"

\* C8: a write failing with ENOSPC or EFBIG ends the pass as a normal end of
\* pass: the step that meets it prints no error, records no failure and
\* leaves the run going.
C8_StorageFullIsNotAnError ==
    [][(errno = "none" /\ errno' \in {"ENOSPC", "EFBIG"})
         => /\ printed' = printed
            /\ io_error' = io_error
            /\ events' = events
            /\ exit_status' = <<>>]_vars

\* C9: with pattern "all", pass p (0-based) uses random, zeroes, ones for
\* p mod 3 = 0, 1, 2: the sequence starts with random, never has random in
\* two consecutive passes, and wipe_free_space, format_disk and the GUI
\* compute the same pattern for every p.
C9_AllCycle ==
    LET rule(q) == CASE q % 3 = 0 -> "random"
                     [] q % 3 = 1 -> "zeroes"
                     [] OTHER -> "ones"
    IN  \* the three rules as functions of p (evaluated once, at the start)
        /\ pc = "main" =>
             /\ \A q \in 0..(MaxPasses + 3) :
                  /\ wfs_mode("all", q) = rule(q)
                  /\ fd_mode("all", q) = rule(q)
                  /\ gui_mode("all", q) = rule(q)
                  /\ ~(fd_mode("all", q) = "random"
                         /\ fd_mode("all", q + 1) = "random")
             /\ fd_mode("all", 0) = "random"
        \* the pattern of the pass being written
        /\ (pattern = "all" /\ pc \in {"wfs_open", "wfs_write", "fw_open",
                                      "fw_write", "gw_open", "gw_write"})
             => mode = rule(p)

\* The fourth pass of format_disk's wipe stage writes random data again.
C9_Witness ==
    /\ pattern = "all"
    /\ pc = "fw_write"
    /\ p = 3
    /\ mode = "random"
    /\ chunk = Urandom(block_size)

\* C10: with an explicit pattern every block handed to write, in every pass
\* of every write loop, is a block of exactly that pattern: random bytes,
\* 0x00, 0xFF, or the ticks/haha motif tiled to the block size.
C10_ExplicitPatternWritten ==
    (pattern # "all" /\ chunk # NoChunk) =>
        /\ chunk.len = block_size
        /\ chunk.motif = CASE pattern = "random" -> <<"urandom">>
                           [] pattern = "zeroes" -> <<0>>
                           [] pattern = "ones" -> <<255>>
                           [] pattern = "ticks" -> TICKS
                           [] OTHER -> HAHA

\* C11: in the command-line write loops, every temp file of the run that
\* exists on disk is an entry of the cleanup registry temp_files (an entry
\* leaves the registry only once its file is deleted), in the first pass
\* and in every later pass that reuses the file name.
C11_TempFilesAreRegistered ==
    InMainThread => files \subseteq temp_files

\* C12: the stages of one format_disk run occur in the order CacheFlush,
\* HiddenAreaRemoval (with its detection and raw overwrite), EnhancedErase,
\* SmartClear, Format, FreeSpaceWipe, Reformat: no stage runs after a stage
\* listed later than it, and no stage outside the list runs.
C12_StageOrder ==
    LET rank(s) ==
            CASE s = "CacheFlush" -> 1
              [] s \in {"HiddenAreaDetect", "HiddenAreaRemoval", "RawOverwrite"} -> 2
              [] s = "EnhancedErase" -> 3
              [] s = "SmartClear" -> 4
              [] s = "Format" -> 5
              [] s = "FreeSpaceWipe" -> 6
              [] s = "Reformat" -> 7
              [] OTHER -> 0
    IN  /\ \A i \in 1..Len(stages) : rank(stages[i]) # 0
        /\ \A i, j \in 1..Len(stages) :
             i < j => rank(stages[i]) <= rank(stages[j])

---------------------------------------------------------------------------
(* The GUI main thread (securewipeUI.py): the buttons, the Stop button and  *)
(* the timer that drains progress_queue, together with the worker threads   *)
(* it starts.  A worker is kept as the operation it runs and whether its    *)
(* thread is still alive; what a worker does inside is the subject of the   *)
(* actions above.                                                           *)

MaxOperations == 2

\* The variables of the operation a single worker executes.
worker ==
    <<entry, args, system, pc, exit_status, passes, block_size, pipeline,
      hooks, files, loop, printed, interrupted, io_error, wiped, display,
      util>>

\* No wipe or format operation has been started.
Idle ==
    /\ entry = "gui_wipe"
    /\ args = [pattern |-> "all", verify |-> FALSE, yes |-> TRUE]
    /\ system = "Linux"
    /\ pc = "main"
    /\ exit_status = <<>>
    /\ passes = DefaultPasses
    /\ block_size = DefaultBlockSize
    /\ stages = <<>>
    /\ soft_failed = FALSE
    /\ confirmed = FALSE
    /\ has_hidden = FALSE
    /\ mount_point = "None"
    /\ free_space = 0
    /\ fname = <<"none", 0>>
    /\ temp_files = {}
    /\ files = {}
    /\ f = "unbound"
    /\ atexit_registered = FALSE
    /\ handler = "default"
    /\ p = 0
    /\ mode = "none"
    /\ written = 0
    /\ chunk = NoChunk
    /\ printed = {}
    /\ interrupted = FALSE
    /\ errno = "none"
    /\ io_error = FALSE
    /\ events = <<>>
    /\ operation_running = FALSE
    /\ current_time = 0
    /\ pass_start_time = 0
    /\ last_display_time = 0
    /\ emissions = <<>>
    /\ wiped = 0
    /\ threads = <<>>
    /\ certificate_btn = "disabled"
    /\ size = 0

\* SecureWipeGUI.__init__: no operation is running, the queue is empty.
InitGui ==
    /\ Idle
    /\ inputs = <<>>
    /\ returned = <<>>

\* What a worker thread puts on the queue when it ends: wipe_thread and
\* format_thread put "complete" or "error"; a sys.exit inside format_disk
\* ends format_thread without any event ("none").
ThreadEnds(op) ==
    IF op = "wipe" THEN {"complete", "error"} ELSE {"complete", "error", "none"}

\* start_operation (602-633): mark the operation as running and start a new
\* daemon thread for it.
start_operation(operation_type) ==
    /\ Len(threads) < MaxOperations
    /\ operation_running' = TRUE
    /\ threads' = Append(threads, [op |-> operation_type, alive |-> TRUE])
    /\ certificate_btn' = "disabled"
    /\ UNCHANGED <<worker, events>>

\* wipe_free_space_gui (496-543): refused while operation_running; the user
\* confirms the dialog.
wipe_free_space_gui ==
    /\ ~operation_running
    /\ start_operation("wipe")

\* format_disk_gui (545-600): refused while operation_running; the user
\* confirms both dialogs.
format_disk_gui ==
    /\ ~operation_running
    /\ start_operation("format")

\* stop_operation (711-721): a status message, operation_running = False
\* and finish_operation(); the worker thread is not told to stop.
stop_operation ==
    /\ operation_running
    /\ threads # <<>>
    /\ events' = Append(events, "status")
    /\ operation_running' = FALSE
    /\ UNCHANGED <<worker, threads, certificate_btn>>

\* wipe_thread (635-663) / format_thread (687-709) running to their end.
thread_end ==
    \E i \in 1..Len(threads) :
      /\ threads[i].alive
      /\ threads' = [threads EXCEPT ![i].alive = FALSE]
      /\ \E e \in ThreadEnds(threads[i].op) :
           events' = IF e = "none" THEN events ELSE Append(events, e)
      /\ UNCHANGED <<worker, operation_running, certificate_btn>>

\* check_progress_queue (764-846): the timer callback drains the queue in
\* order; a "complete" message calls finish_operation() and enables the
\* certificate button (814-826), an "error" message calls finish_operation()
\* and disables it (828-840).
check_progress_queue ==
    /\ events # <<>>
    /\ events' = <<>>
    /\ operation_running' =
         IF \E i \in 1..Len(events) : events[i] \in {"complete", "error"}
         THEN FALSE ELSE operation_running
    /\ LET terminal == {i \in 1..Len(events) :
                          events[i] \in {"complete", "error"}}
           last == CHOOSE i \in terminal : \A j \in terminal : j <= i
       IN  certificate_btn' =
             IF terminal = {} THEN certificate_btn
             ELSE IF events[last] = "complete" THEN "normal" ELSE "disabled"
    /\ UNCHANGED <<worker, threads>>

NextGui ==
    \/ wipe_free_space_gui
    \/ format_disk_gui
    \/ stop_operation
    \/ thread_end
    \/ check_progress_queue

GuiSpec == InitGui /\ [][NextGui]_vars

\* C13: at most one write loop executes at any time: whatever the user does
\* (start wipe, start format, Stop) and whenever terminal events are
\* handled, no two worker threads are alive together.
C13_OneWorkerAtATime ==
    \A i, j \in 1..Len(threads) :
        (threads[i].alive /\ threads[j].alive) => i = j

\* C14: every operation started by the GUI ends with exactly one terminal
\* event on the progress queue, "complete" or "error", and that event is the
\* last one the worker emits: a worker thread that has ended has done so,
\* a fatal Format or Reformat failure inside format_disk included.
C14_OneTerminalEvent ==
    pc = "thread_done" =>
        /\ events # <<>>
        /\ events[Len(events)] \in {"complete", "error"}
        /\ \A i \in 1..(Len(events) - 1) : events[i] \notin {"complete", "error"}


---------------------------------------------------------------------------
(* C15 *)

\* The steps of a free-space wipe, command line and GUI, after the
\* measurement of the free space.
WipePassPcs ==
    {"wfs_pass", "wfs_open", "wfs_write", "wfs_finally", "wfs_remove",
     "wfs_summary", "gw_open", "gw_write", "gw_verify", "gw_return"}

\* C15: a free-space wipe that measured 0 bytes free opens no temp file and
\* writes no block: while the measured free space is 0, the temp file is not
\* on disk, no file is open for writing and the run is reported as having no
\* free space (GUI: the "no_free_space" log event).
C15_NoWriteWithoutFreeSpace ==
    (pc \in WipePassPcs /\ free_space = 0) =>
        /\ fname \notin files
        /\ pc \notin {"wfs_write", "gw_write"}
        /\ (entry = "gui_wipe" /\ p < passes) =>
               \E i \in 1..Len(events) : events[i] = "no_free_space"

---------------------------------------------------------------------------
(* C16 *)

\* C16: every byte count shown by a pass summary, a final summary or a GUI
\* progress event is at most the free space measured for the wipe, whatever
\* the value of the `written` counter: each step that shows a new amount
\* shows one that does not exceed free_space.
C16_ReportedWithinFreeSpace ==
    [][wiped' # wiped => wiped' <= free_space']_vars

\* A final summary whose amount was clamped: the counter times the number of
\* passes exceeds the free space, and the free space is what is shown.
C16_Witness ==
    /\ pc = "wfs_outer_finally"
    /\ written * passes > free_space
    /\ wiped = free_space
    /\ wiped > 0

---------------------------------------------------------------------------
(* C17 *)

PassStartPcs == {"wfs_pass", "fw_pass", "gw_pass"}

OpenPcs == {"wfs_open", "fw_open", "gw_open"}

WritePcs == {"wfs_write", "fw_write", "gw_write"}

\* The steps of one pass, from the opening of the temp file to its removal.
InPassPcs ==
    OpenPcs \cup WritePcs
    \cup {"wfs_finally", "wfs_remove", "fw_finally", "fw_remove", "gw_verify"}

\* C17: within a pass the `written` counter behind the progress display
\* never decreases: it is 0 when the pass opens its temp file, a successful
\* write adds exactly block_size, and a step that is not a successful write
\* (a failed write, an interrupt, the cleanup) leaves it as it is.
C17_WrittenMonotonic ==
    [][/\ (pc \in PassStartPcs /\ pc' \in OpenPcs) => written' = 0
       /\ pc \in InPassPcs => written' >= written
       /\ pc \in WritePcs =>
             IF pc' = pc
             THEN written' = written + block_size
             ELSE written' = written
       /\ pc \in InPassPcs \ WritePcs => written' = written]_vars

\* A pass in which one write succeeded and the next one was refused for lack
\* of space: the counter stands at one block.
C17_Witness ==
    /\ pc = "wfs_finally"
    /\ errno = "ENOSPC"
    /\ written = block_size

---------------------------------------------------------------------------
(* The elapsed/remaining line of wipe_free_space (securewipe.py 1101-1108,  *)
(* 1141-1170; format_disk repeats the same statements at 2021-2028 and      *)
(* 2068-2096).  Time is counted in tenths of a second; the clock is         *)
(* time.time(), which can stand still between two writes and can be set     *)
(* back.                                                                     *)

MaxWrites == 4

MaxStep == 3

\* 1143: the 0.5 s of the refresh test, in tenths of a second.
Throttle == 5

\* time.time() when the wipe starts: seconds since 1970, far above Throttle.
Epoch == 100

ClockSteps == (0 - 1)..MaxStep

\* Variant: the refresh test always succeeds.
display_always(now, last) == TRUE

\* 1143: if current_time - last_display_time >= 0.5
display_due(now, last) == now - last >= Throttle

InitDisplay ==
    /\ entry = "cli_freespace"
    /\ args = [pattern |-> "all", verify |-> FALSE, yes |-> TRUE]
    /\ system = "Linux"
    /\ pc = "wfs_pass"
    /\ exit_status = <<>>
    /\ passes = 2
    /\ block_size = DefaultBlockSize
    /\ stages = <<>>
    /\ soft_failed = FALSE
    /\ confirmed = FALSE
    /\ has_hidden = FALSE
    /\ mount_point = "None"
    /\ free_space = MaxWrites * DefaultBlockSize
    /\ fname = <<"Securewipe_free_space", 0>>
    /\ temp_files = {fname}
    /\ files = {}
    /\ f = "unbound"
    /\ atexit_registered = TRUE
    /\ handler = "wipe_free_space"
    /\ p = 0
    /\ mode = "none"
    /\ written = 0
    /\ chunk = NoChunk
    /\ printed = {}
    /\ interrupted = FALSE
    /\ errno = "none"
    /\ io_error = FALSE
    /\ events = <<>>
    /\ operation_running = FALSE
    /\ threads = <<>>
    /\ certificate_btn = "disabled"
    /\ wiped = 0
    /\ current_time = Epoch
    /\ pass_start_time = 0
    /\ last_display_time = 0
    /\ emissions = <<>>
    /\ inputs = <<>>
    /\ returned = <<>>
    /\ size = 0

\* 1068-1120: the head of a pass: the clock is read, the counter and
\* last_display_time are reset, the initial time line is printed and the temp
\* file is opened.
display_pass ==
    /\ pc = "wfs_pass"
    /\ IF p < passes
       THEN \E d \in ClockSteps :
              /\ current_time' = current_time + d
              /\ pass_start_time' = current_time'
              /\ last_display_time' = 0
              /\ emissions' = <<>>
              /\ mode' = wfs_mode(pattern, p)
              /\ written' = 0
              /\ size' = 0
              /\ files' = files \cup {fname}
              /\ f' = "open"
              /\ pc' = "wfs_write"
       ELSE /\ pc' = "wfs_summary"
            /\ UNCHANGED <<display, mode, written, size, files, f>>
    /\ UNCHANGED <<util, config, gui, exit_status, passes, block_size, pipeline,
                   hooks, free_space, fname, p, chunk, errno, printed,
                   interrupted, io_error, events, wiped>>

\* 1122-1173: a successful write.  The clock is read after the write; when
\* the refresh is due, the elapsed and remaining times are computed
\* (written / elapsed_seconds raises ZeroDivisionError when the clock has
\* not moved since the pass started), the line is rewritten if its text
\* changed, and last_display_time is set.
display_write ==
    /\ pc = "wfs_write"
    /\ written < MaxWrites * block_size
    /\ chunk' = wfs_chunk(mode, block_size)
    /\ written' = written + block_size
    /\ size' = size + block_size
    /\ \E d \in ClockSteps, changed \in BOOLEAN :
         /\ current_time' = current_time + d
         /\ IF display_due(current_time', last_display_time)
            THEN IF current_time' = pass_start_time
                 THEN /\ pc' = "wfs_raised"
                      /\ f' = "closed"
                      /\ UNCHANGED <<last_display_time, emissions>>
                 ELSE /\ last_display_time' = current_time'
                      /\ emissions' = IF changed
                                      THEN Append(emissions, current_time')
                                      ELSE emissions
                      /\ UNCHANGED <<pc, f>>
            ELSE UNCHANGED <<pc, f, last_display_time, emissions>>
    /\ UNCHANGED <<util, config, gui, exit_status, passes, block_size, pipeline,
                   hooks, files, free_space, fname, p, mode, errno, printed,
                   interrupted, io_error, events, wiped, pass_start_time>>

\* 1179-1213: the write that finds the disk full ends the pass; the temp
\* file is removed and the pass is summarised.
display_full ==
    /\ pc = "wfs_write"
    /\ f' = "closed"
    /\ files' = files \ {fname}
    /\ temp_files' = temp_files \ {fname}
    /\ wiped' = pass_wiped(written, free_space)
    /\ printed' = printed \cup {"pass_complete"}
    /\ p' = p + 1
    /\ size' = 0
    /\ pc' = "wfs_pass"
    /\ UNCHANGED <<util, config, gui, exit_status, passes, block_size, pipeline,
                   atexit_registered, handler, free_space, fname, mode,
                   written, chunk, errno, interrupted, io_error, events,
                   display>>

NextDisplay ==
    \/ display_pass
    \/ display_write
    \/ display_full

DisplaySpec == InitDisplay /\ [][NextDisplay]_vars

---------------------------------------------------------------------------
(* C19 *)

\* C19: at the end of every pass the data is forced to the device before
\* the temp file is removed: after a pass that wrote data, the step that
\* calls os.fsync(f.fileno()) (1187-1193, 2120-2125) finds the file of the
\* pass still open.
C19_FsyncOnOpenFile ==
    (pc \in {"wfs_finally", "fw_finally"} /\ written > 0) => f = "open"

---------------------------------------------------------------------------
(* C20 *)

\* remove_hpa_dco was called and returned success (1475-1479): the removal
\* stage ran and the warning of the else branch (1483) was not printed.
RemovalSucceeded ==
    HasStage("HiddenAreaRemoval") /\ "hidden_warning" \notin printed

\* C20: write_to_raw_disk is called, or is the next statement, exactly when
\* check_hpa_dco reported hidden areas and remove_hpa_dco succeeded (a run
\* interrupted by SIGINT between the two calls excepted).  When
\* the check reports none, remove_hpa_dco and write_to_raw_disk are not
\* called, no warning about hidden areas is printed, and the check itself
\* marks no stage as failed.
C20_RawOverwriteIffRemoved ==
    [][/\ (HasStage("RawOverwrite") \/ pc = "fd_raw_write")'
            => (has_hidden /\ RemovalSucceeded)'
       /\ (has_hidden /\ RemovalSucceeded)'
            => (HasStage("RawOverwrite") \/ pc = "fd_raw_write" \/ interrupted)'
       /\ (HasStage("HiddenAreaDetect") /\ ~has_hidden)' =>
             /\ ~HasStage("HiddenAreaRemoval")'
             /\ ~HasStage("RawOverwrite")'
             /\ (printed \cap {"hidden_warning", "raw_write_warning"})' = {}
       /\ (pc = "fd_check_hpa" /\ ~has_hidden') => soft_failed' = soft_failed]_vars

\* Hidden areas were detected, removed, and the raw overwrite has run.
C20_Witness ==
    /\ has_hidden
    /\ RemovalSucceeded
    /\ HasStage("RawOverwrite")
    /\ pc = "fd_enhanced"

---------------------------------------------------------------------------
(* C21 *)

\* C21: when get_disk_mountpoint gives None, the warning is printed, the
\* free-space wipe of format_disk is skipped as a whole (no temp file is
\* created, no block is written, the stage is not entered) and the run goes
\* on to the final format.
C21_UnresolvedMountSkipsWipe ==
    [][/\ (pc = "fd_mountpoint" /\ mount_point' = "None"
              /\ interrupted' = interrupted) =>
             /\ "skip_wipe" \in printed'
             /\ pc' = "fd_reformat"
             /\ exit_status' = <<>>
       /\ ("skip_wipe" \in printed)' =>
             /\ ~HasStage("FreeSpaceWipe")'
             /\ files' = {}
             /\ written' = 0
             /\ f' = "unbound"]_vars

\* A run that skipped the wipe for lack of a mount point, ran the final
\* format and ended in success.
C21_Witness ==
    /\ "skip_wipe" \in printed
    /\ ~interrupted
    /\ ReformatSucceeded
    /\ ExitedWith(ExitOk)

---------------------------------------------------------------------------
(* Drive enumeration: get_physical_drives (securewipe.py 341-441) on Linux  *)
(* and Windows.  A partition is what psutil.disk_partitions yields:         *)
(* device, fstype, opts (cdrom or not) and mountpoint, together with what   *)
(* psutil.disk_usage(mountpoint) gives for it: <<>> when it raises, else    *)
(* <<total>>.  A device name is kept in two parts: on Linux the name        *)
(* without its trailing digits and the digits ("/dev/sda", "1"), on         *)
(* Windows the first two characters and the rest ("C:", "\").  A mount      *)
(* point is <<directory, n>>, the n-th mount below the directory.           *)

MaxPartitions == 3

\* 400: 1024 * 1024
MiB == 1048576

\* is_virtual_filesystem (293-338): excluded by filesystem type, by device
\* name or by the prefix of the mount point.
is_virtual_filesystem(fstype, device, mountpoint) ==
    LET virtual_fs_types ==
            {"sysfs", "proc", "devtmpfs", "devpts", "tmpfs", "securityfs",
             "cgroup", "cgroup2", "pstore", "bpf", "configfs", "debugfs",
             "tracefs", "fusectl", "binfmt_misc", "mqueue", "hugetlbfs",
             "autofs", "rpc_pipefs", "nfsd", "sunrpc", "overlay",
             "fuse.gvfsd-fuse", "fuse.portal", "fuse.gvfs-fuse-daemon",
             "fuse.snapfuse", "fuse.lxcfs", "fuse.dbus"}
        virtual_devices ==
            {"none", "udev", "tmpfs", "sysfs", "proc", "devpts",
             "securityfs", "debugfs", "configfs", "fusectl", "binfmt_misc",
             "gvfsd-fuse", "portal", "overlay"}
        system_mounts ==
            {"/sys", "/proc", "/dev", "/run", "/tmp", "/var/run", "/snap"}
    IN  \/ fstype \in virtual_fs_types
        \/ (device.suffix = "" /\ device.base \in virtual_devices)
        \/ mountpoint[1] \in system_mounts

\* 379-388: the base device name: trailing digits stripped on Linux, the
\* first two characters on Windows, the name itself elsewhere.
base_device(sys, device) ==
    IF sys \in {"Linux", "Windows"}
    THEN [base |-> device.base, suffix |-> ""]
    ELSE device

\* 367-417: the filtered pass over parts[i..], with the devices seen and the
\* drives found so far.  A device is marked as seen (394) before the usage
\* of the partition is read and its size is tested (397-401).
RECURSIVE filtered_pass(_, _, _, _, _)
filtered_pass(sys, parts, i, seen_devices, physical_drives) ==
    IF i > Len(parts) THEN physical_drives
    ELSE LET part == parts[i]
             base == base_device(sys, part.device)
             skipped ==
                 \/ is_virtual_filesystem(part.fstype, part.device,
                                          part.mountpoint)
                 \/ (sys = "Windows" /\ (part.cdrom \/ part.fstype = ""))
                 \/ base \in seen_devices
         IN  IF skipped
             THEN filtered_pass(sys, parts, i + 1, seen_devices,
                                physical_drives)
             ELSE IF part.usage = <<>> \/ part.usage[1] < MiB
             THEN filtered_pass(sys, parts, i + 1,
                                seen_devices \cup {base}, physical_drives)
             ELSE filtered_pass(sys, parts, i + 1,
                                seen_devices \cup {base},
                                Append(physical_drives,
                                       [device |-> base,
                                        mountpoint |-> part.mountpoint,
                                        size |-> part.usage[1]]))

\* 420-439: the fallback pass: every partition whose usage can be read,
\* under its full device name.
RECURSIVE fallback_pass(_, _, _)
fallback_pass(parts, i, physical_drives) ==
    IF i > Len(parts) THEN physical_drives
    ELSE IF parts[i].usage = <<>>
    THEN fallback_pass(parts, i + 1, physical_drives)
    ELSE fallback_pass(parts, i + 1,
                       Append(physical_drives,
                              [device |-> parts[i].device,
                               mountpoint |-> parts[i].mountpoint,
                               size |-> parts[i].usage[1]]))

\* Variant: the fallback pass is run whatever the filtered pass found.
run_fallback_always(physical_drives) == TRUE

\* 420: if not physical_drives
run_fallback(physical_drives) == physical_drives = <<>>

\* get_physical_drives (341-441), the branch for systems other than macOS.
get_physical_drives(sys, parts) ==
    LET found == filtered_pass(sys, parts, 1, {}, <<>>)
    IN  IF run_fallback(found) THEN fallback_pass(parts, 1, found) ELSE found

\* The lists psutil.disk_partitions(all=True) can give: up to MaxPartitions
\* mounts of two partitions of one disk, of a partition of a second disk
\* and of a tmpfs (Linux), or of two drive letters (Windows).
PartitionLists(sys) ==
    LET Usages == {<<>>, <<MiB - 1>>, <<MiB>>}
        LinuxParts ==
            [device : {[base |-> "/dev/sda", suffix |-> "1"],
                       [base |-> "/dev/sda", suffix |-> "2"]},
             fstype : {"ext4"}, cdrom : {FALSE},
             mountpoint : {<<"/mnt", 0>>, <<"/run", 0>>}, usage : Usages]
            \cup
            [device : {[base |-> "tmpfs", suffix |-> ""]},
             fstype : {"tmpfs"}, cdrom : {FALSE},
             mountpoint : {<<"/mnt", 0>>, <<"/run", 0>>}, usage : Usages]
            \cup
            [device : {[base |-> "/dev/sdb", suffix |-> "1"]},
             fstype : {"ext4"}, cdrom : {FALSE},
             mountpoint : {<<"/mnt", 0>>}, usage : {<<MiB>>}]
        WindowsParts ==
            [device : {[base |-> "C:", suffix |-> "\\"],
                       [base |-> "D:", suffix |-> "\\"]},
             fstype : {"NTFS", ""}, cdrom : BOOLEAN,
             mountpoint : {<<"", 0>>}, usage : Usages]
        Parts == IF sys = "Linux" THEN LinuxParts ELSE WindowsParts
    IN  UNION {{[i \in 1..n |->
                   [ps[i] EXCEPT !.mountpoint = <<ps[i].mountpoint[1], i>>]]
                : ps \in [1..n -> Parts]} : n \in 0..MaxPartitions}

InitDrives ==
    /\ Idle
    /\ \E sys \in {"Linux", "Windows"} :
         \E parts \in PartitionLists(sys) :
           inputs = [system |-> sys, partitions |-> parts]
    /\ returned = <<>>

\* A caller (main, the GUI drive list) calls get_physical_drives().
list_drives ==
    /\ pc = "main"
    /\ pc' = "returned"
    /\ returned' = get_physical_drives(inputs.system, inputs.partitions)
    /\ UNCHANGED <<entry, args, system, exit_status, passes, block_size,
                   pipeline, hooks, files, loop, printed, interrupted,
                   io_error, wiped, display, events, gui, inputs>>

DrivesSpec == InitDrives /\ [][list_drives]_vars

\* C22: on systems other than macOS the list returned by get_physical_drives
\* holds at most one record per base device, and each record describes the
\* first partition of its device, in the order of enumeration, that passes
\* the virtual-filesystem and minimum-size filters.
C22_OneRecordPerDevice ==
    pc = "returned" =>
        LET sys == inputs.system
            parts == inputs.partitions
            eligible(k) ==
                /\ ~is_virtual_filesystem(parts[k].fstype, parts[k].device,
                                          parts[k].mountpoint)
                /\ ~(sys = "Windows"
                        /\ (parts[k].cdrom \/ parts[k].fstype = ""))
                /\ parts[k].usage # <<>>
                /\ parts[k].usage[1] >= MiB
            base(d) == base_device(sys, d)
        IN  /\ \A i, j \in 1..Len(returned) :
                  base(returned[i].device) = base(returned[j].device) => i = j
            /\ \A i \in 1..Len(returned) :
                  \E k \in 1..Len(parts) :
                     /\ returned[i].mountpoint = parts[k].mountpoint
                     /\ eligible(k)
                     /\ \A m \in 1..(k - 1) :
                           base(parts[m].device) = base(parts[k].device)
                              => ~eligible(m)

---------------------------------------------------------------------------
(* C23 *)

---------------------------------------------------------------------------
(* Time estimate: estimate_operation_time (securewipe.py 773-825).  The     *)
(* code computes in floating point; here sizes are counted in MiB, speeds   *)
(* in MiB/s and times in milliseconds, and the sizes drawn are multiples of *)
(* 4 MiB, for which every quotient below is exact.                          *)

MaxSizeGiB == 10

\* Variant: no estimate is known for a system other than the three named.
estimate_write_speed_unknown(sys) ==
    CASE sys = "Darwin" -> 200
      [] sys = "Linux" -> 100
      [] sys = "Windows" -> 80
      [] OTHER -> 0

\* estimate_write_speed (709-729), in MiB/s.
estimate_write_speed(sys) ==
    CASE sys = "Darwin" -> 200
      [] sys = "Linux" -> 100
      [] sys = "Windows" -> 80
      [] OTHER -> 50

\* benchmark_write_speed (731-771) exists only as a comment: the name is
\* not defined and the call at 793 raises NameError.
benchmark_write_speed(path) == "NameError"

\* 786-801: the throughput in use.  The benchmark is tried when requested
\* and the path is writable; a result that is not zero or None is used
\* reduced by 20 %; an exception of the call leaves the system estimate.
estimated_speed(sys, include_benchmark, path) ==
    LET benchmark_speed == benchmark_write_speed(path)
    IN  IF include_benchmark /\ path = "writable"
        THEN IF benchmark_speed = "NameError"
             THEN estimate_write_speed(sys)
             ELSE IF benchmark_speed # 0
                  THEN (benchmark_speed * 8) \div 10
                  ELSE estimate_write_speed(sys)
        ELSE estimate_write_speed(sys)

\* Variant: the filesystem overhead is 10 % of the total, without a ceiling.
fs_overhead_uncapped(total_time) == total_time \div 10

\* 811: fs_overhead = min(30, total_time * 0.1), in milliseconds.
fs_overhead(total_time) == Min(30000, total_time \div 10)

\* estimate_operation_time (773-825): the fields estimated_seconds (in
\* milliseconds) and estimated_speed of the returned dictionary; the
\* division at 804 raises ZeroDivisionError for a speed of 0.
estimate_operation_time(sys, data_size, n, include_benchmark, path) ==
    LET speed == estimated_speed(sys, include_benchmark, path)
    IN  IF speed <= 0
        THEN [raised |-> TRUE, estimated_seconds |-> 0,
              estimated_speed |-> speed]
        ELSE LET base_time == (data_size * 1000) \div speed
                 total_time == (base_time * n) + (2000 * n)
             IN  [raised |-> FALSE,
                  estimated_seconds |-> total_time + fs_overhead(total_time),
                  estimated_speed |-> speed]

InitEstimate ==
    /\ Idle
    /\ inputs \in [system : {"Darwin", "Linux", "Windows", "FreeBSD"},
                   data_size : {0, 4, 1024} \cup {g * 1024 : g \in 1..MaxSizeGiB},
                   passes : {0, 1, DefaultPasses, MaxPasses},
                   include_benchmark : BOOLEAN,
                   path : {"None", "writable", "unwritable"}]
    /\ returned = <<>>

\* wipe_free_space 1039, format_disk 1602 and 1971, the GUI dialogs
\* (securewipeUI.py 510, 559, 651) call estimate_operation_time.
estimate ==
    /\ pc = "main"
    /\ pc' = "returned"
    /\ returned' = estimate_operation_time(inputs.system, inputs.data_size,
                                           inputs.passes,
                                           inputs.include_benchmark,
                                           inputs.path)
    /\ UNCHANGED <<entry, args, system, exit_status, passes, block_size,
                   pipeline, hooks, files, loop, printed, interrupted,
                   io_error, wiped, display, events, gui, inputs>>

EstimateSpec == InitEstimate /\ [][estimate]_vars

\* C24: estimated_seconds is the time to write the data once at the speed in
\* use, times the passes, plus 2 s per pass, plus a filesystem overhead of
\* 10 % of that sum and at most 30 s; 10 GiB, 3 passes and 100 MiB/s give
\* 343.2 s.
C24_EstimateFormula ==
    pc = "returned" =>
        LET sum == ((inputs.data_size * 1000) \div returned.estimated_speed)
                      * inputs.passes + 2000 * inputs.passes
            overhead == returned.estimated_seconds - sum
        IN  /\ ~returned.raised
            /\ overhead <= 30000
            /\ overhead = IF sum \div 10 < 30000 THEN sum \div 10 ELSE 30000
            /\ (inputs.data_size = 10 * 1024 /\ inputs.passes = 3
                  /\ returned.estimated_speed = 100)
                 => returned.estimated_seconds = 343200

\* The example of the claim: 10 GiB, 3 passes, 100 MiB/s; the overhead is
\* cut to 30 s.
C24_Witness ==
    /\ pc = "returned"
    /\ inputs.data_size = 10 * 1024
    /\ inputs.passes = 3
    /\ returned.estimated_speed = 100
    /\ returned.estimated_seconds = 343200

C26_VerifyMismatchFails ==
    [][(/\ verify
        /\ pc \in {"wfs_remove", "fw_remove", "gw_verify"}
        /\ size # written
        /\ ~interrupted') => p' = p]_vars


\* ---------------------------------------------------------------------
\* format_size and parse_size (securewipe.py 101-144).  A size text such as
\* "1.13KB" is the tuple <<1, 13, "KB">> (digits before the point, the two
\* digits after it, the unit); "Unknown" is <<"Unknown">>.

\* Byte counts are taken up to MaxOffset bytes away from 0, 1 MiB and 1 GiB.
MaxOffset == 1200

\* 105: the units the loop goes through.
Units == <<"B", "KB", "MB", "GB", "TB">>

RECURSIVE Pow1024(_)
\* 108, 134-142: 1024 ** k.
Pow1024(k) == IF k = 0 THEN 1 ELSE 1024 * Pow1024(k - 1)

\* A variant of two_decimals that keeps one digit after the point.
one_decimal(num, d) ==
    LET q == num \div d
        x == 10 * (num % d)
        t == x \div d
        rem == x % d
    IN  10 * (10 * q + (IF 2 * rem > d \/ (2 * rem = d /\ t % 2 = 1)
                        THEN t + 1 ELSE t))

\* 107: f"{num:.2f}" for num = (byte count) / d: the hundredths of the
\* quotient, rounded to the nearest, a tie to the even one (the quotient by a
\* power of two is exact in a float).
two_decimals(num, d) ==
    LET q == num \div d
        x == 100 * (num % d)
        h == x \div d
        rem == x % d
    IN  100 * q + (IF 2 * rem > d \/ (2 * rem = d /\ h % 2 = 1)
                   THEN h + 1 ELSE h)

RECURSIVE format_loop(_, _)
\* 105-109: the first unit in which the number is below 1024, else PB.
format_loop(num, k) ==
    IF k = Len(Units)
    THEN LET h == two_decimals(num, Pow1024(k))
         IN  <<h \div 100, h % 100, "PB">>
    ELSE IF num < Pow1024(k + 1)
         THEN LET h == two_decimals(num, Pow1024(k))
              IN  <<h \div 100, h % 100, Units[k + 1]>>
         ELSE format_loop(num, k + 1)

\* 101-109.
format_size(num) ==
    IF num = 0 THEN <<"Unknown">> ELSE format_loop(num, 0)

\* 114-144: int(value * 1024 ** k) for the unit's k; 0 for "Unknown", for the
\* empty text and for a unit it does not know.
parse_size(size_str) ==
    IF size_str = <<>> \/ Len(size_str) = 1
    THEN 0
    ELSE LET unit == size_str[3]
             k == CASE unit = "B" -> 0
                    [] unit \in {"KB", "K"} -> 1
                    [] unit \in {"MB", "M"} -> 2
                    [] unit \in {"GB", "G"} -> 3
                    [] unit \in {"TB", "T"} -> 4
                    [] unit \in {"PB", "P"} -> 5
                    [] OTHER -> -1
         IN  IF k < 0
             THEN 0
             ELSE size_str[1] * Pow1024(k)
                    + (size_str[2] * Pow1024(k)) \div 100

InitSize ==
    /\ Idle
    /\ inputs \in [num : (0..MaxOffset)
                         \cup {Pow1024(2) + d : d \in 0..MaxOffset}
                         \cup {Pow1024(2) - d : d \in 1..MaxOffset}
                         \cup {Pow1024(3) - d : d \in 1..MaxOffset}]
    /\ returned = <<>>

\* A byte count is formatted (1203, 1226, 2161; securewipeUI.py 438, 646,
\* 1004) and the text is parsed back (securewipeUI.py 494).
convert ==
    /\ pc = "main"
    /\ pc' = "returned"
    /\ returned' = [text |-> format_size(inputs.num),
                    bytes |-> parse_size(format_size(inputs.num))]
    /\ UNCHANGED <<entry, args, system, exit_status, passes, block_size,
                   pipeline, hooks, files, loop, printed, interrupted,
                   io_error, wiped, display, events, gui, inputs>>

SizeSpec == InitSize /\ [][convert]_vars

\* C27: parse_size(format_size(n)) differs from n by at most 0.01 of the unit
\* format_size chose; 0 becomes "Unknown" and comes back as 0.
C27_RoundTripWithinOneStep ==
    pc = "returned" =>
        LET n == inputs.num
            m == returned.bytes
            diff == IF m > n THEN m - n ELSE n - m
        IN  IF n = 0
            THEN returned.text = <<"Unknown">> /\ m = 0
            ELSE \E k \in 0..Len(Units) - 1 :
                    /\ returned.text[3] = Units[k + 1]
                    /\ 100 * diff <= Pow1024(k)

\* A count in the MB range that the two decimals cannot carry exactly.
C27_Witness ==
    /\ pc = "returned"
    /\ Len(returned.text) = 3
    /\ returned.text[3] = "MB"
    /\ returned.bytes # inputs.num


\* ---------------------------------------------------------------------
\* C28: the pass count and the block size a run works with are the
\* configured ones (those of the command line, the state of Init) from start
\* to end, also when wipe_free_space hands the run over to format_disk.
\* The call at 992 passes neither: format_disk takes its default of 3 passes
\* (1443) and sets the block size to 1 MiB (1975).
C28_ConfiguredValuesUsed ==
    [][passes' = passes /\ block_size' = block_size]_vars


\* ---------------------------------------------------------------------
\* C29: when a cancellation makes the temp-file cleanup run, the write loop
\* does not hold the temp file open: the file is closed already or was not
\* opened yet.  The code has no cancellation flag: the SIGINT handler
\* (1020-1032) is entered wherever the main thread is, also between the
\* write of a block and the next one inside the with-block (1120-1139), and
\* calls cleanup_temp_files() itself.
C29_CleanupSeesClosedFile ==
    [][(~interrupted /\ interrupted') => f # "open"]_vars


\* ---------------------------------------------------------------------
\* format_disk.perform_format (securewipe.py 1672-1852): what it prints and
\* the filesystem name it hands to diskutil, mkfs.* or diskpart.

\* The exit statuses of the formatter are 0..MaxReturnCode.
MaxReturnCode == 1

\* 2226-2227: the choices of -f/--filesystem.
Filesystems ==
    {"exfat", "fat32", "ntfs", "apfs", "hfs+", "ext4", "ext3", "ext2", "vfat"}

\* 1673, 1688: str.upper() on the filesystem names that occur.
upper(name) ==
    CASE name = "exfat" -> "EXFAT" [] name = "fat32" -> "FAT32"
      [] name = "ntfs" -> "NTFS"   [] name = "apfs" -> "APFS"
      [] name = "hfs+" -> "HFS+"   [] name = "ext4" -> "EXT4"
      [] name = "ext3" -> "EXT3"   [] name = "ext2" -> "EXT2"
      [] name = "vfat" -> "VFAT"   [] OTHER -> name

\* 1679-1688 (fs_map of macOS, unknown names in upper case), 1725-1764
\* (Linux: one mkfs tool per kind, vfat is mkfs.vfat -F 32, anything else is
\* refused), 1792-1800 (fs_map of Windows, unknown names become NTFS).
fs_format(sys, filesystem) ==
    CASE sys = "Darwin" ->
           (CASE filesystem = "apfs" -> "APFS"
              [] filesystem = "hfs+" -> "HFS+"
              [] filesystem = "fat32" -> "FAT32"
              [] filesystem = "exfat" -> "ExFAT"
              [] filesystem = "ntfs" -> "NTFS"
              [] filesystem = "ext4" -> "ExFAT"
              [] OTHER -> upper(filesystem))
      [] sys = "Linux" ->
           (CASE filesystem \in {"ext4", "ext3", "ext2", "exfat", "ntfs"} ->
                   upper(filesystem)
              [] filesystem \in {"fat32", "vfat"} -> "FAT32"
              [] OTHER -> "none")
      [] sys = "Windows" ->
           (CASE filesystem = "fat32" -> "FAT32"
              [] filesystem = "exfat" -> "exFAT"
              [] filesystem = "ntfs" -> "NTFS"
              [] OTHER -> "NTFS")
      [] OTHER -> "none"

\* 1672-1852: the lines printed, each with the filesystem name it shows, the
\* name handed to the formatter ("none" when no formatter is run) and
\* whether the function returned True (else sys.exit(1)).
perform_format_run(sys, step_name, filesystem, returncode) ==
    LET name == fs_format(sys, filesystem)
        step == <<[line |-> step_name, fs |-> upper(filesystem)]>>
    IN  IF name = "none"
        THEN [printed |-> step \o <<[line |-> "unsupported",
                                     fs |-> filesystem]>>,
              fs_format |-> "none", returned |-> FALSE]
        ELSE [printed |-> step \o <<[line |-> "executing", fs |-> name]>>
                            \o (IF returncode = 0
                                THEN <<[line |-> "formatting_output",
                                        fs |-> "none"]>>
                                ELSE <<[line |-> "error_formatting",
                                        fs |-> "none"]>>),
              fs_format |-> name, returned |-> (returncode = 0)]

InitFormat ==
    /\ Idle
    /\ inputs \in [system : Systems,
                   step_name : {"Formatting", "Final formatting"},
                   filesystem : Filesystems,
                   returncode : 0..MaxReturnCode]
    /\ returned = <<>>

\* 1914 and 2183: format_disk calls perform_format for the initial and for
\* the final formatting.
format ==
    /\ pc = "main"
    /\ pc' = "returned"
    /\ returned' = perform_format_run(inputs.system, inputs.step_name,
                                      inputs.filesystem,
                                      inputs.returncode)
    /\ UNCHANGED <<entry, args, system, exit_status, passes, block_size,
                   pipeline, hooks, files, loop, printed, interrupted,
                   io_error, wiped, display, events, gui, inputs>>

FormatSpec == InitFormat /\ [][format]_vars

\* C30: when the filesystem kind handed to the platform formatter is not the
\* kind that was requested, one of the lines printed before the formatter
\* runs is a note about the substitution.  perform_format prints the step
\* line with the requested name (1673) and the command it executes (1704,
\* 1766, 1820-1823); no line says that one kind stands in for another.
C30_SubstitutionIsNoted ==
    LET kind(name) ==
          CASE name \in {"ExFAT", "exFAT", "EXFAT"} -> {"exfat"}
            [] name \in {"FAT32", "VFAT"} -> {"fat32", "vfat"}
            [] name = "NTFS" -> {"ntfs"} [] name = "APFS" -> {"apfs"}
            [] name = "HFS+" -> {"hfs+"} [] name = "EXT4" -> {"ext4"}
            [] name = "EXT3" -> {"ext3"} [] name = "EXT2" -> {"ext2"}
            [] OTHER -> {}
    IN  (/\ pc = "returned"
         /\ returned.fs_format # "none"
         /\ inputs.filesystem \notin kind(returned.fs_format))
           => \E i \in 1..Len(returned.printed) :
                 returned.printed[i].line = "substitution_note"


\* ---------------------------------------------------------------------
\* C31: an operation that was stopped with the Stop button is not reported
\* with a "complete" event afterwards: a worker thread that ends with
\* "complete" belongs to an operation still marked as running.
\* stop_operation (711-721) only clears operation_running; the write loop
\* of the worker (985-1012) never reads it, goes on writing and ends as if
\* nothing had happened.
C31_StoppedNeverCompletes ==
    [][((\E i \in 1..Len(threads) :
            /\ threads[i].op = "wipe"
            /\ threads[i].alive /\ ~threads'[i].alive)
        /\ events' = Append(events, "complete")) => operation_running]_vars


\* ---------------------------------------------------------------------
\* C32: the Generate Certificate button is enabled only when no operation
\* is running.  A worker that was stopped is still alive (stop_operation
\* 711-721); when its "complete" message is handled (814-826) the button is
\* enabled, whatever was started in the meantime.
C32_CertificateOnlyAfterSuccess ==
    certificate_btn = "normal" =>
        \A i \in 1..Len(threads) : ~threads[i].alive


\* ---------------------------------------------------------------------
\* The speed and time_update messages of the GUI write loop (securewipeUI.py
\* 985-1012).  Time is counted in tenths of a second from the clock value of
\* Idle; pass_start_time holds operation_start_time, emissions the clock
\* values at which the current pass put a speed and a time_update message.

\* start_operation (602-633): operation_start_time = time.time(), the worker
\* thread is started.
gui_display_start ==
    /\ pc = "main"
    /\ pc' = "gw_pass"
    /\ pass_start_time' = current_time
    /\ operation_running' = TRUE
    /\ certificate_btn' = "disabled"
    /\ UNCHANGED <<util, config, exit_status, passes, block_size, pipeline,
                   hooks, loop, files, printed, interrupted, io_error,
                   events, threads, wiped, current_time, last_display_time,
                   emissions>>

\* 943-985: the head of a pass: the pattern is chosen, the free space is
\* measured and the temp file is opened.
gui_display_pass ==
    /\ pc = "gw_pass"
    /\ IF p < passes
       THEN /\ mode' = gui_mode(pattern, p)
            /\ free_space' = MaxWrites * block_size
            /\ written' = 0
            /\ size' = 0
            /\ files' = files \cup {fname}
            /\ f' = "open"
            /\ emissions' = <<>>
            /\ pc' = "gw_write"
       ELSE /\ pc' = "gw_return"
            /\ UNCHANGED <<mode, free_space, written, size, files, f,
                           emissions>>
    /\ UNCHANGED <<util, config, gui, exit_status, passes, block_size,
                   pipeline, hooks, fname, p, chunk, errno, printed,
                   interrupted, io_error, events, wiped, current_time,
                   pass_start_time, last_display_time>>

\* 986-1012: a successful write; the progress, speed and time_update
\* messages follow it without any test of the time.
gui_display_write ==
    /\ pc = "gw_write"
    /\ written < MaxWrites * block_size
    /\ chunk' = gui_chunk(mode, block_size)
    /\ written' = written + block_size
    /\ size' = size + block_size
    /\ wiped' = pass_wiped(written', free_space)
    /\ \E d \in ClockSteps :
         /\ current_time' = current_time + d
         /\ emissions' = Append(emissions, current_time')
    /\ UNCHANGED <<util, config, gui, exit_status, passes, block_size,
                   pipeline, hooks, files, free_space, fname, f, p, mode,
                   errno, printed, interrupted, io_error, events, pc,
                   pass_start_time, last_display_time>>

\* 995-998, 1014-1025: the write that finds the volume full ends the pass
\* and the temp file is removed.
gui_display_full ==
    /\ pc = "gw_write"
    /\ f' = "closed"
    /\ files' = files \ {fname}
    /\ size' = 0
    /\ p' = p + 1
    /\ pc' = "gw_pass"
    /\ UNCHANGED <<util, config, gui, exit_status, passes, block_size,
                   pipeline, hooks, free_space, fname, mode, written, chunk,
                   errno, printed, interrupted, io_error, events, wiped,
                   display>>

GuiDisplaySpec ==
    /\ InitGui
    /\ [][\/ gui_display_start
          \/ gui_display_pass
          \/ gui_display_write
          \/ gui_display_full]_vars

\* C33: the GUI worker puts at most two speed messages and at most two
\* time_update messages on the queue per second: while the clock does not go
\* back, of any three consecutive ones the last is at least one second
\* after the first.  The loop puts both messages after every block
\* (1007-1012).
C33_TwoPerSecond ==
    \A i \in 1..(Len(emissions) - 2) :
        (emissions[i] <= emissions[i + 1]
           /\ emissions[i + 1] <= emissions[i + 2])
          => emissions[i + 2] - emissions[i] >= 2 * Throttle


\* ---------------------------------------------------------------------
\* The runs with the pattern zeroes: the pattern decides the bytes written
\* and nothing else.
FairInit == Init /\ pattern = "zeroes"

\* The thread that executes the operation keeps running: a step that is
\* possible is eventually taken.
FairSpec == FairInit /\ [][Next]_vars /\ WF_vars(Next)

\* The run is over: the process exited or the worker thread ended.
Terminated == pc \in {"exited", "thread_done"}

C35_InvalidConfigurationRejected ==
    passes < 1 =>
        /\ ~HasStage("Format")
        /\ ~HasStage("RawOverwrite")
        /\ pc \notin WritePcs


\* ---------------------------------------------------------------------
\* C36: on systems other than macOS every base device with at least one
\* volume that is not virtual, has readable usage and is at least 1 MiB
\* large has a record in the result of get_physical_drives, wherever that
\* volume stands in the enumeration.  The device is marked as seen (394)
\* before the usage of its first volume is read (397-401), so a first volume
\* that is too small or unreadable hides every later volume of the device.
C36_EveryUsableDeviceListed ==
    pc = "returned" =>
        LET sys == inputs.system
            parts == inputs.partitions
        IN  \A k \in 1..Len(parts) :
               (/\ ~is_virtual_filesystem(parts[k].fstype, parts[k].device,
                                          parts[k].mountpoint)
                /\ ~(sys = "Windows"
                        /\ (parts[k].cdrom \/ parts[k].fstype = ""))
                /\ parts[k].usage # <<>>
                /\ parts[k].usage[1] >= MiB)
               => \E i \in 1..Len(returned) :
                     base_device(sys, returned[i].device)
                        = base_device(sys, parts[k].device)


\* ---------------------------------------------------------------------
\* C37: when the free-space stage of format_disk has ended, normally or
\* through an exception, the SIGINT handler is the original one again and
\* the atexit callback of the stage is unregistered.  Both are undone only
\* at the end of the try block (2165-2170); the except clause (2172-2174)
\* undoes nothing.
C37_InterruptStateRestored ==
    (pc = "fd_reformat" /\ HasStage("FreeSpaceWipe"))
        => (handler = "default" /\ ~atexit_registered)


\* ---------------------------------------------------------------------
\* C38: with a resolved mount point that has free space, the free-space
\* stage of format_disk has executed all its overwrite passes when the final
\* format begins, whichever thread called format_disk.  In the GUI worker
\* thread (securewipeUI.py 687-709, 1066) signal.signal (1968) raises
\* ValueError before the first pass; the except clause at 2172 prints the
\* error and the run continues with the final format.
C38_WipeRunsInAnyThread ==
    (/\ pc = "fd_reformat"
     /\ HasStage("FreeSpaceWipe")
     /\ free_space > 0
     /\ passes > 0) => p = passes

=============================================================================
